---- MODULE Spec2Model ----
(***************************************************************************)
(* Model of the garmin-coach-mcp sync engine (sync.py): the orchestrator   *)
(* sync_all, the thirteen category syncers, the _upsert helper and the     *)
(* SQLAlchemy session (pending view / committed store) they write through. *)
(*                                                                         *)
(* The remote client and the store engine are the environment: every       *)
(* remote fetch either returns its payload, returns an empty payload or    *)
(* raises; every commit either succeeds or raises.  Runs of sync_all,      *)
(* changes of the remote data set and deviations from the fault-free       *)
(* behaviour are paid from `budget`, which bounds the exploration.         *)
(*                                                                         *)
(* Two further specifications study one call each: SpecQuery a call of     *)
(* the read-only SQL gateway query(sql, limit) of server.py, SpecZones the *)
(* rows _sync_activity_hr_zones derives from one zones payload.            *)
(***************************************************************************)
EXTENDS Bags, FiniteSets, Integers, Sequences, TLC

VARIABLES
    db,        \* committed store: table name -> bag of rows
    sess,      \* the sync session's view: committed rows plus pending writes
    cat,       \* position of sync_all: 0 = not running, i = Order[i] is running
    step,      \* position inside the running syncer
    unit,      \* loop index inside the running syncer (date or activity)
    count,     \* local `count` of the running syncer
    ids,       \* local `ids` of _sync_activities
    act_ids,   \* sync_all's act_ids
    errors,    \* local `errors` of a detail syncer
    endurance, \* local `endurance` dict of _sync_fitness_scores
    results,   \* sync_all's results dict
    warnings,  \* sync_all's warnings list
    days,      \* the days argument of the running / last sync_all
    out,       \* value returned by the last sync_all (NoOut before the first)
    calls,     \* syncers invoked so far by the running / last sync_all
    active,    \* syncers currently executing
    ver,       \* version of the remote data set
    budget,    \* remaining exploration budget
    log,       \* environment outcomes seen by the running syncer
    before,    \* committed rows of the running syncer's table at its entry
    cur,       \* summary of the latest completed call of each syncer
    prev,      \* summary of the call before that
    gw,        \* the query gateway: its store file and its latest call
    zn,        \* an hr-zones payload and the rows derived from it
    pf         \* a helper function under study: its arguments and its result

syncvars == <<db, sess, cat, step, unit, count, ids, act_ids, errors, endurance,
          results, warnings, days, out, calls, active, ver, budget, log,
          before, cur, prev>>

vars == <<syncvars, gw, zn, pf>>

----------------------------------------------------------------------------
(* Bounds of the exploration *)

MaxDays == 1      \* sync_all is called with days in 0..MaxDays
Budget == 6       \* a run of sync_all costs 2, a failing or empty fetch or a
                  \* failing commit costs 2, a change of the remote data costs 1
MaxVer == 2       \* versions of the remote data set

----------------------------------------------------------------------------
(* Values *)

None == <<>>                   \* Python None, for `str | None`
Some(m) == <<m>>               \* a str
\* the test `if err is not None:`
Truthy_not_none(err) == err # <<>>

Truthy(err) == err # None /\ err[1] # ""     \* `if err:`

Msgs == {"", "boom"}           \* str(e) of an exception that reaches a syncer's handler

NoOut == [status |-> "none"]
NoCall == [called |-> FALSE]

\* no helper function under study
PfIdle == [fn |-> "none"]

\* the order with fitness_scores moved behind race_predictions
Order_swapped == <<"activities",
           "daily_summary", "sleep", "heart_rate", "body_composition",
           "training_readiness", "hrv", "training_status", "race_predictions",
           "fitness_scores", "personal_records",
           "activity_hr_zones", "activity_splits">>

\* run order of sync_all
Order == <<"activities",
           "daily_summary", "sleep", "heart_rate", "body_composition",
           "training_readiness", "hrv", "training_status", "fitness_scores",
           "race_predictions", "personal_records",
           "activity_hr_zones", "activity_splits">>

Cats == {Order[i] : i \in 1..Len(Order)}

\* syncers whose body is `for cur in _date_range(start, end)` around one
\* single-date fetch
PerDateCats == {"daily_summary", "sleep", "heart_rate",
                "training_readiness", "hrv", "training_status"}

DetailCats == {"activity_hr_zones", "activity_splits"}

Range(s) == {s[i] : i \in 1..Len(s)}

----------------------------------------------------------------------------
(* _date_range: the dates cur, cur + 1 day, ... while cur <= end.  Dates   *)
(* are day numbers; datetime.now() is day 0.                               *)

\* the loop with `while cur < end`
RECURSIVE _date_range_exclusive(_, _)
_date_range_exclusive(start, end) ==
    IF start < end THEN <<start>> \o _date_range_exclusive(start + 1, end) ELSE <<>>

RECURSIVE _date_range(_, _)
_date_range(start, end) ==
    IF start <= end THEN <<start>> \o _date_range(start + 1, end) ELSE <<>>

\* the window that starts one day late
Window_late(d) == _date_range(1 - d, 0)

\* the dates of sync_all's window: start = end - timedelta(days=d), end = now
Window(d) == _date_range(0 - d, 0)

----------------------------------------------------------------------------
(* The store: a table is a bag of rows [pk, vals]                          *)

Row(pk, vals) == [pk |-> pk, vals |-> vals]

Keys(table) == {r.pk : r \in BagToSet(table)}

RowsOf(table, pk) == {r \in BagToSet(table) : r.pk = pk}

\* the variant of _upsert that never looks the key up
_upsert_no_lookup(view, model, pk_filter, values) ==
    [view EXCEPT ![model] = @ (+) SetToBag({Row(pk_filter, values)})]

\* the variant that leaves a row it finds as it is
_upsert_keep(view, model, pk_filter, values) ==
    IF RowsOf(view[model], pk_filter) # {} THEN view
    ELSE [view EXCEPT ![model] = @ (+) SetToBag({Row(pk_filter, values)})]

\* the variant that replaces the row it finds by a row of `values` alone
_upsert_replace(view, model, pk_filter, values) ==
    LET found == RowsOf(view[model], pk_filter)
    IN  [view EXCEPT ![model] =
            (@ (-) SetToBag(found)) (+) SetToBag({Row(pk_filter, values)})]

\* _upsert: look the row up by primary key; set the named attributes on it,
\* or add a new row
_upsert(view, model, pk_filter, values) ==
    LET found == RowsOf(view[model], pk_filter)
    IN  IF found # {}
        THEN LET obj == CHOOSE r \in found : TRUE
                 set == [k \in (DOMAIN obj.vals) \cup (DOMAIN values) |->
                            IF k \in DOMAIN values THEN values[k] ELSE obj.vals[k]]
             IN  [view EXCEPT ![model] =
                     (@ (-) SetToBag({obj})) (+) SetToBag({Row(pk_filter, set)})]
        ELSE [view EXCEPT ![model] = @ (+) SetToBag({Row(pk_filter, values)})]

\* one _upsert per element of the sequence rows, in order
RECURSIVE UpsertAll(_, _, _)
UpsertAll(view, model, rows) ==
    IF rows = <<>> THEN view
    ELSE UpsertAll(_upsert(view, model, Head(rows).pk, Head(rows).vals),
                   model, Tail(rows))

----------------------------------------------------------------------------
(* The remote data set, version v *)

\* payload of a single-date endpoint
Payload(v) == [raw_json |-> v]

\* get_activities_by_date: the activities of the window
RemoteActivities == <<"a1", "a2">>

\* get_body_composition(start, end)["dateWeightList"]: one entry per date
\* of the window
RemoteWeights(v, d) ==
    [i \in 1..Len(Window(d)) |-> Row(Window(d)[i], Payload(v))]

\* get_endurance_score / get_hill_score (start, end): one score per date
RemoteScores(v, d) == [ds \in Range(Window(d)) |-> v]

\* get_personal_record: a list of records, one of them without an id
RemoteRecords == <<"r1", "", "r2">>

\* number of zones (splits) the remote reports for an activity: the second
\* version of the data set has fewer of them
RemoteOrdinals(v) == IF v = 1 THEN 2 ELSE 1

----------------------------------------------------------------------------
(* server.py, query(sql, limit): the read-only SQL gateway.  A str is a    *)
(* sequence of one-character strings.                                      *)

MaxPieces == 3     \* a SQL text given to query has at most MaxPieces pieces

LowerCase == <<"a", "b", "c", "d", "e", "f", "g", "h", "i", "j", "k", "l", "m",
               "n", "o", "p", "q", "r", "s", "t", "u", "v", "w", "x", "y", "z">>
UpperCase == <<"A", "B", "C", "D", "E", "F", "G", "H", "I", "J", "K", "L", "M",
               "N", "O", "P", "Q", "R", "S", "T", "U", "V", "W", "X", "Y", "Z">>
Digits == {"0", "1", "2", "3", "4", "5", "6", "7", "8", "9"}

Least(S) == CHOOSE x \in S : \A y \in S : x <= y
Greatest(S) == CHOOSE x \in S : \A y \in S : y <= x

\* str.upper(), one character
upperChar(c) ==
    IF c \in Range(LowerCase)
    THEN UpperCase[CHOOSE i \in 1..Len(LowerCase) : LowerCase[i] = c]
    ELSE c

\* str.upper()
upper(s) == [i \in 1..Len(s) |-> upperChar(s[i])]

isspace(c) == c \in {" ", "\t", "\n"}

\* str.strip(): the text without its leading and trailing whitespace
strip(s) ==
    LET idx == {i \in 1..Len(s) : ~isspace(s[i])}
    IN  IF idx = {} THEN <<>> ELSE SubSeq(s, Least(idx), Greatest(idx))

\* the test `"SELECT" in normalized`
startswith_anywhere(s, p) ==
    \E i \in 1..Len(s) : i + Len(p) - 1 <= Len(s) /\ SubSeq(s, i, i + Len(p) - 1) = p

\* str.startswith(p)
startswith(s, p) == Len(s) >= Len(p) /\ SubSeq(s, 1, Len(p)) = p

SELECT == <<"S", "E", "L", "E", "C", "T">>
DROP == <<"D", "R", "O", "P">>
DELETE == <<"D", "E", "L", "E", "T", "E">>
UPDATE == <<"U", "P", "D", "A", "T", "E">>
INSERT == <<"I", "N", "S", "E", "R", "T">>
ALTER == <<"A", "L", "T", "E", "R">>
CREATE == <<"C", "R", "E", "A", "T", "E">>
ATTACH == <<"A", "T", "T", "A", "C", "H">>
REPLACE == <<"R", "E", "P", "L", "A", "C", "E">>

\* the alternatives of the pattern of line 77
Denylist == {DROP, DELETE, UPDATE, INSERT, ALTER, CREATE, ATTACH}

\* \w of the re module
isword(c) == c \in Range(LowerCase) \cup Range(UpperCase) \cup Digits \cup {"_"}

\* \b between s[i] and s[i+1]: exactly one side is a word character (the
\* outside of the text is not)
boundary(s, i) ==
    LET left == i >= 1 /\ isword(s[i])
        right == i < Len(s) /\ isword(s[i + 1])
    IN  left # right

\* a match of \b(w)\b at position i
matchAt(s, w, i) ==
    /\ i + Len(w) - 1 <= Len(s)
    /\ SubSeq(s, i, i + Len(w) - 1) = w
    /\ boundary(s, i - 1)
    /\ boundary(s, i + Len(w) - 1)

\* re.match of the same pattern: a match at the start of the text only
re_match(s) == \E w \in Denylist : matchAt(s, w, 1)

\* re.search(r"\b(DROP|DELETE|UPDATE|INSERT|ALTER|CREATE|ATTACH)\b", s)
re_search(s) == \E w \in Denylist : \E i \in 1..Len(s) : matchAt(s, w, i)

MaxLimit == 1000

\* the store file behind GARMIN_COACH_DB: whether the tables of models.py
\* exist, the number of rows the table read by the statement holds, and the
\* number of statements that have changed the file
StoreFile(created, rows, writes) ==
    [created |-> created, rows |-> rows, writes |-> writes]

\* Base.metadata.create_all(engine): creates the tables that do not exist
create_all(store) ==
    IF store.created THEN store ELSE StoreFile(TRUE, 0, store.writes + 1)

\* _get_session(): create_engine, create_all, sessionmaker(bind=engine)()
_get_session(store) == create_all(store)

\* the parts of a text between its ";"
RECURSIVE Parts(_)
Parts(s) ==
    IF ";" \notin Range(s) THEN <<s>>
    ELSE LET i == Least({j \in 1..Len(s) : s[j] = ";"})
         IN  <<SubSeq(s, 1, i - 1)>> \o Parts(SubSeq(s, i + 1, Len(s)))

NonBlank(s) == strip(s) # <<>>

\* the statements of a text
Statements(s) == SelectSeq(Parts(s), NonBlank)

\* the leading word of a statement, uppercased
Keyword(s) ==
    LET t == upper(strip(s))
        stop == {i \in 1..Len(t) : ~isword(t[i])} \cup {Len(t) + 1}
    IN  SubSeq(t, 1, Least(stop) - 1)

\* statements the driver applies to the file at once
Ddl == {DROP, ALTER, CREATE}
\* statements the driver runs inside the session's transaction
Dml == {DELETE, UPDATE, INSERT, REPLACE}

\* session.execute(text(sql)) on the sqlite3 driver: a text of more than one
\* statement is refused ("You can only execute one statement at a time."),
\* a SELECT yields the rows of its table, a statement of Ddl changes the
\* file, a statement of Dml changes the session's transaction only, and
\* anything else is a syntax error.
execute(store, sql) ==
    LET stmts == Statements(sql)
        kw == Keyword(stmts[1])
    IN  IF Len(stmts) # 1 THEN [raised |-> TRUE, store |-> store, n |-> 0]
        ELSE IF kw = SELECT THEN [raised |-> FALSE, store |-> store, n |-> store.rows]
        ELSE IF kw \in Ddl
             THEN [raised |-> FALSE, n |-> 0,
                   store |-> [store EXCEPT !.writes = @ + 1]]
        ELSE IF kw \in Dml THEN [raised |-> FALSE, store |-> store, n |-> 0]
        ELSE [raised |-> TRUE, store |-> store, n |-> 0]

\* result.fetchmany(size) on a cursor of n rows: the next `size` rows; the
\* sqlite3 cursor returns every remaining row for a size of 0 or less
fetchmany(n, size) ==
    IF size > 0 THEN (IF n < size THEN n ELSE size) ELSE n

\* `len(rows) >= limit`
truncated_at_least(k, lim) == k >= lim

\* `len(rows) == limit`, line 89
truncated(k, lim) == k = lim

\* the exception left query instead of a return value
Raised(m) == [raised |-> m]

\* what a call of query leaves behind: the store file, the value returned,
\* and whether a session was opened, a statement handed to it, and the
\* session closed
Answer(g, store, ret, opened, executed, closed) ==
    [store |-> store, sql |-> g.sql, limit |-> g.limit, called |-> TRUE,
     ret |-> ret, opened |-> opened, executed |-> executed,
     closed |-> closed, before |-> g.store]

\* query(sql, limit), lines 66-94, called on the gateway state g; fail is the
\* step of the call at which the store engine raises ("none": nowhere)
query(g, fail) ==
    LET normalized == upper(strip(g.sql))
        limit == IF g.limit < MaxLimit THEN g.limit ELSE MaxLimit
        session == _get_session(g.store)
        result == execute(session, g.sql)
        k == fetchmany(result.n, limit)
        rows == [i \in 1..k |-> i]
    IN  IF ~startswith(normalized, SELECT)
        THEN Answer(g, g.store, [error |-> "Only SELECT queries are allowed."],
                    FALSE, FALSE, FALSE)
        ELSE IF re_search(normalized)
        THEN Answer(g, g.store,
                    [error |-> "Modification queries are not allowed."],
                    FALSE, FALSE, FALSE)
        ELSE IF fail = "open"
        THEN Answer(g, g.store, Raised("boom"), FALSE, FALSE, FALSE)
        ELSE IF fail = "execute" \/ result.raised
        THEN Answer(g, session, [error |-> "boom"], TRUE, TRUE, TRUE)
        ELSE IF fail = "fetchmany"
        THEN Answer(g, result.store, [error |-> "boom"], TRUE, TRUE, TRUE)
        ELSE Answer(g, result.store,
                    [columns |-> <<"id">>, rows |-> rows,
                     row_count |-> Len(rows),
                     truncated |-> truncated(Len(rows), limit)],
                    TRUE, TRUE, TRUE)

\* the gateway before a call: query(sql, limit) is about to run on `store`
Asked(store, sql, limit) ==
    [store |-> store, sql |-> sql, limit |-> limit, called |-> FALSE]

\* the gateway while the sync engine runs: the tables exist (init_db has
\* called create_all) and no query is in progress
GwIdle == Asked(StoreFile(TRUE, 0, 0), <<>>, 100)

----------------------------------------------------------------------------
(* _sync_activity_hr_zones, lines 525-543: the rows written for the zones  *)
(* of one activity.  A zone of the payload is a dict; an `int | None` is a  *)
(* sequence of at most one element.                                         *)

MaxZones == 3      \* a payload has at most MaxZones zones

\* _g(z, k) on a dict z
_g(z, k) == IF k \in DOMAIN z THEN Some(z[k]) ELSE None

\* `a or b` on int | None: a unless it is None or 0
or(a, b) == IF a # None /\ a[1] # 0 THEN a ELSE b

\* `_g(zones[i + 1], "zoneLowBoundary") or 0`
next_low(z) == or(_g(z, "zoneLowBoundary"), Some(0))

\* the default `i` of enumerate, without the + 1
zoneNumber_from_zero(z, i) == IF "zoneNumber" \in DOMAIN z THEN z["zoneNumber"] ELSE i - 1

\* `_g(z, "zoneNumber", default=i + 1)`, line 528 (i counts from 1 here)
zoneNumber(z, i) == IF "zoneNumber" \in DOMAIN z THEN z["zoneNumber"] ELSE i

\* the key and values upserted for zones[i] (i counts from 1 here)
ZoneVals(zones, i) ==
    LET z == zones[i]
        zone == zoneNumber(z, i)
        min_hr == or(_g(z, "zoneLowBoundary"), _g(z, "startBpm"))
        max_hr == IF i < Len(zones)
                  THEN Some(next_low(zones[i + 1])[1] - 1)
                  ELSE None
    IN  [zone |-> zone,
         min_hr |-> min_hr,
         max_hr |-> IF max_hr # None /\ max_hr[1] # 0 /\ max_hr[1] > 0
                    THEN max_hr ELSE None]

\* the rows of one activity, in payload order
hr_zones(zones) == [i \in 1..Len(zones) |-> ZoneVals(zones, i)]

\* no zones payload under study
ZnIdle == [zones |-> <<>>, applied |-> FALSE, rows |-> <<>>]

----------------------------------------------------------------------------
(* sync_all *)

\* the variant that returns early when activities yields no identifier
NextCat_abort(i, aids) ==
    IF i = 1 /\ aids = <<>> THEN 0
    ELSE IF i = 11 THEN (IF aids # <<>> THEN 12 ELSE 0)
    ELSE IF i = 13 THEN 0
    ELSE i + 1

\* the variant without the `if act_ids:` test
NextCat_always(i, aids) == IF i = 13 THEN 0 ELSE i + 1

\* the category that follows Order[i], 0 when sync_all is done
NextCat(i, aids) ==
    IF i = 11 THEN (IF aids # <<>> THEN 12 ELSE 0)
    ELSE IF i = Len(Order) THEN 0
    ELSE i + 1

Fmt(name, err) == name \o ": " \o err

\* lines 77-80
Result(res, warn, d) ==
    IF warn # <<>>
    THEN [status |-> "ok", synced |-> res, days |-> d, warnings |-> warn]
    ELSE [status |-> "ok", synced |-> res, days |-> d]

\* The running syncer returns (cnt, err) with committed store newDb, and
\* sync_all records the result and calls the next syncer (or returns).
Returned(cnt, err, aids, newDb, lg) ==
    LET name == Order[cat]
        res  == (name :> cnt) @@ results
        warn == IF Truthy(err) THEN Append(warnings, Fmt(name, err[1]))
                ELSE warnings
        nxt  == NextCat(cat, aids)
    IN  /\ results' = res
        /\ warnings' = warn
        /\ act_ids' = aids
        /\ cat' = nxt
        /\ step' = "fetch"
        /\ unit' = 1
        /\ count' = 0
        /\ ids' = <<>>
        /\ errors' = <<>>
        /\ endurance' = <<>>
        /\ log' = <<>>
        /\ active' = (active \ {name}) \cup (IF nxt = 0 THEN {} ELSE {Order[nxt]})
        /\ calls' = IF nxt = 0 THEN calls ELSE Append(calls, Order[nxt])
        /\ out' = IF nxt = 0 THEN Result(res, warn, days) ELSE out
        /\ before' = IF nxt = 0 THEN EmptyBag ELSE newDb[Order[nxt]]
        /\ prev' = [prev EXCEPT ![name] = cur[name]]
        /\ cur' = [cur EXCEPT ![name] =
                      [called |-> TRUE, log |-> lg, cnt |-> cnt, err |-> err,
                       days |-> days, ver |-> ver, given |-> act_ids,
                       ids |-> aids,
                       before |-> before, after |-> newDb[name]]]
        /\ UNCHANGED <<days, ver>>

SyncInit ==
    /\ db = [c \in Cats |-> EmptyBag]
    /\ sess = [c \in Cats |-> EmptyBag]
    /\ cat = 0
    /\ step = "fetch"
    /\ unit = 1
    /\ count = 0
    /\ ids = <<>>
    /\ act_ids = <<>>
    /\ errors = <<>>
    /\ endurance = <<>>
    /\ results = <<>>
    /\ warnings = <<>>
    /\ days = 0
    /\ out = NoOut
    /\ calls = <<>>
    /\ active = {}
    /\ ver = 1
    /\ budget = Budget
    /\ log = <<>>
    /\ before = EmptyBag
    /\ cur = [c \in Cats |-> NoCall]
    /\ prev = [c \in Cats |-> NoCall]

\* the program after init_db, with no query and no zones payload under study
Init == SyncInit /\ gw = GwIdle /\ zn = ZnIdle /\ pf = PfIdle

\* sync_all(client, session, days=d): lines 29-37, up to the call of
\* _sync_activities
SyncAll ==
    /\ gw = GwIdle /\ UNCHANGED <<gw, zn, pf>>
    /\ cat = 0
    /\ budget >= 2
    /\ \E d \in 0..MaxDays :
        /\ days' = d
        /\ budget' = budget - 2
        /\ results' = <<>>
        /\ warnings' = <<>>
        /\ act_ids' = <<>>
        /\ cat' = 1
        /\ step' = "fetch"
        /\ unit' = 1
        /\ count' = 0
        /\ ids' = <<>>
        /\ errors' = <<>>
        /\ endurance' = <<>>
        /\ log' = <<>>
        /\ calls' = <<Order[1]>>
        /\ active' = {Order[1]}
        /\ before' = db[Order[1]]
        /\ UNCHANGED <<db, sess, out, ver, cur, prev>>

\* the remote data set changes between two runs
RemoteChange ==
    /\ gw = GwIdle /\ UNCHANGED <<gw, zn, pf>>
    /\ cat = 0
    /\ budget >= 1
    /\ budget' = budget - 1
    /\ ver' = (ver % MaxVer) + 1
    /\ UNCHANGED <<db, sess, cat, step, unit, count, ids, act_ids, errors,
                   endurance, results, warnings, days, out, calls, active,
                   log, before, cur, prev>>

----------------------------------------------------------------------------
(* The environment: a remote fetch returns data ("ok"), returns an empty   *)
(* payload ("empty") or raises ("raise"); a commit succeeds or raises.     *)

\* an outcome other than "ok" is paid for
Pay(o) ==
    IF o = "ok" THEN budget' = budget
    ELSE budget >= 2 /\ budget' = budget - 2

Name == Order[cat]

\* a path that leaves the syncer without session.commit()
Committed_skipped == db' = db /\ sess' = sess

\* session.commit() succeeded / session.rollback()
Committed == db' = sess /\ sess' = sess
\* the handler without session.rollback()
RolledBack_none == db' = db /\ sess' = sess

RolledBack == db' = db /\ sess' = db

----------------------------------------------------------------------------
(* _sync_activities *)

ActivityRows(aids) == [i \in 1..Len(aids) |-> Row(aids[i], Payload(ver))]

\* lines 124-149: the fetch and the loop over the returned activities.
\* "partial": the second record is malformed, the loop raises on it.
FetchActivities ==
    /\ gw = GwIdle /\ UNCHANGED <<gw, zn, pf>>
    /\ cat = 1 /\ step = "fetch"
    /\ \E o \in {"ok", "empty", "partial", "raise"} :
        /\ Pay(o)
        /\ \/ /\ o \in {"ok", "empty"}
              /\ LET got == IF o = "ok" THEN RemoteActivities ELSE <<>>
                 IN  /\ sess' = UpsertAll(sess, "activities", ActivityRows(got))
                     /\ ids' = got
                     /\ count' = Len(got)
              /\ step' = "commit"
              /\ log' = Append(log, o)
              /\ UNCHANGED <<db, cat, unit, act_ids, errors, endurance, results,
                             warnings, days, out, calls, active, ver, before,
                             cur, prev>>
           \/ /\ o \in {"partial", "raise"}
              /\ \E m \in Msgs :
                    LET got == IF o = "partial" THEN SubSeq(RemoteActivities, 1, 1)
                               ELSE <<>>
                    IN  /\ RolledBack
                        /\ Returned(Len(got), Some(m), got, db, Append(log, o))

----------------------------------------------------------------------------
(* The six per-date syncers: _sync_daily_summaries, _sync_sleep,           *)
(* _sync_heart_rate, _sync_training_readiness, _sync_hrv,                  *)
(* _sync_training_status                                                   *)

\* the body without `if not stats: continue`: an empty payload is upserted
DateWrite_on_empty(view, model, ds, o) ==
    IF o \in {"ok", "empty"} THEN _upsert(view, model, ds, Payload(ver)) ELSE view

\* the session after the body of the inner try, for fetch outcome o
DateWrite_on_raise(view, model, ds, o) ==
    IF o \in {"ok", "raise"} THEN _upsert(view, model, ds, Payload(ver)) ELSE view

DateWrite(view, model, ds, o) ==
    IF o = "ok" THEN _upsert(view, model, ds, Payload(ver)) ELSE view

\* `count` after the body of the inner try, for fetch outcome o
DateCount_early(cnt, o) == IF o \in {"ok", "raise"} THEN cnt + 1 ELSE cnt

DateCount(cnt, o) == IF o = "ok" THEN cnt + 1 ELSE cnt

\* one iteration of `for cur in _date_range(start, end)`
FetchDate ==
    /\ gw = GwIdle /\ UNCHANGED <<gw, zn, pf>>
    /\ cat # 0 /\ Name \in PerDateCats /\ step = "fetch"
    /\ unit <= Len(Window(days))
    /\ \E o \in {"ok", "empty", "raise"} :
        /\ Pay(o)
        /\ sess' = DateWrite(sess, Name, Window(days)[unit], o)
        /\ count' = DateCount(count, o)
        /\ log' = Append(log, o)
        /\ IF unit = Len(Window(days))
           THEN step' = "commit" /\ unit' = unit
           ELSE step' = step /\ unit' = unit + 1
        /\ UNCHANGED <<db, cat, ids, act_ids, errors, endurance, results,
                       warnings, days, out, calls, active, ver, before,
                       cur, prev>>

----------------------------------------------------------------------------
(* _sync_body_composition: one fetch for the whole window *)

FetchBodyComposition ==
    /\ gw = GwIdle /\ UNCHANGED <<gw, zn, pf>>
    /\ cat # 0 /\ Name = "body_composition" /\ step = "fetch"
    /\ \E o \in {"ok", "empty", "raise"} :
        /\ Pay(o)
        /\ \/ /\ o \in {"ok", "empty"}
              /\ LET got == IF o = "ok" THEN RemoteWeights(ver, days) ELSE <<>>
                 IN  /\ sess' = UpsertAll(sess, Name, got)
                     /\ count' = Len(got)
              /\ step' = "commit"
              /\ log' = Append(log, o)
              /\ UNCHANGED <<db, cat, unit, ids, act_ids, errors, endurance,
                             results, warnings, days, out, calls, active, ver,
                             before, cur, prev>>
           \/ /\ o = "raise"
              /\ \E m \in Msgs :
                    /\ RolledBack
                    /\ Returned(0, Some(m), act_ids, db, Append(log, o))

----------------------------------------------------------------------------
(* _sync_fitness_scores: two fetches for the whole window, each in its own *)
(* try/except                                                              *)

\* lines 391-399
FetchEndurance ==
    /\ gw = GwIdle /\ UNCHANGED <<gw, zn, pf>>
    /\ cat # 0 /\ Name = "fitness_scores" /\ step = "fetch"
    /\ \E o \in {"ok", "empty", "raise"} :
        /\ Pay(o)
        /\ endurance' = IF o = "ok" THEN RemoteScores(ver, days) ELSE <<>>
        /\ step' = "hill"
        /\ log' = Append(log, o)
        /\ UNCHANGED <<db, sess, cat, unit, count, ids, act_ids, errors,
                       results, warnings, days, out, calls, active, ver,
                       before, cur, prev>>

\* dict.get
Get(dict, k) == IF k \in DOMAIN dict THEN dict[k] ELSE "None"

\* a sequence holding the elements of the set S, each once
RECURSIVE SetToSeq(_)
SetToSeq(S) ==
    IF S = {} THEN <<>>
    ELSE LET x == CHOOSE y \in S : TRUE IN <<x>> \o SetToSeq(S \ {x})

ScoreRows(e, h) ==
    LET ds == SetToSeq((DOMAIN e) \cup (DOMAIN h))
    IN  [i \in 1..Len(ds) |->
            Row(ds[i], [endurance_score |-> Get(e, ds[i]),
                        hill_score |-> Get(h, ds[i]),
                        raw_json |-> <<Get(e, ds[i]), Get(h, ds[i])>>])]

\* lines 401-418
FetchHill ==
    /\ gw = GwIdle /\ UNCHANGED <<gw, zn, pf>>
    /\ cat # 0 /\ Name = "fitness_scores" /\ step = "hill"
    /\ \E o \in {"ok", "empty", "raise"} :
        /\ Pay(o)
        /\ LET hill == IF o = "ok" THEN RemoteScores(ver, days) ELSE <<>>
               rows == ScoreRows(endurance, hill)
           IN  /\ sess' = UpsertAll(sess, Name, rows)
               /\ count' = Len(rows)
        /\ step' = "commit"
        /\ log' = Append(log, o)
        /\ UNCHANGED <<db, cat, unit, ids, act_ids, errors, endurance,
                       results, warnings, days, out, calls, active, ver,
                       before, cur, prev>>

----------------------------------------------------------------------------
(* _sync_race_predictions *)

FetchRacePredictions ==
    /\ gw = GwIdle /\ UNCHANGED <<gw, zn, pf>>
    /\ cat # 0 /\ Name = "race_predictions" /\ step = "fetch"
    /\ \E o \in {"ok", "empty", "raise"} :
        /\ Pay(o)
        /\ \/ /\ o \in {"ok", "empty"}
              /\ sess' = IF o = "ok" THEN _upsert(sess, Name, 0, Payload(ver))
                         ELSE sess
              /\ count' = IF o = "ok" THEN 1 ELSE 0
              /\ step' = "commit"
              /\ log' = Append(log, o)
              /\ UNCHANGED <<db, cat, unit, ids, act_ids, errors, endurance,
                             results, warnings, days, out, calls, active, ver,
                             before, cur, prev>>
           \/ /\ o = "raise"
              /\ \E m \in Msgs :
                    /\ RolledBack
                    /\ Returned(0, Some(m), act_ids, db, Append(log, o))

----------------------------------------------------------------------------
(* _sync_personal_records *)

\* the variant that keeps the records without an id
RecordRows_all(recs) == [i \in 1..Len(recs) |-> Row(recs[i], Payload(ver))]

\* `if not rid: continue`
RecordRows(recs) ==
    LET withId == SelectSeq(recs, LAMBDA r : r # "")
    IN  [i \in 1..Len(withId) |-> Row(withId[i], Payload(ver))]

FetchPersonalRecords ==
    /\ gw = GwIdle /\ UNCHANGED <<gw, zn, pf>>
    /\ cat # 0 /\ Name = "personal_records" /\ step = "fetch"
    /\ \E o \in {"ok", "empty", "raise"} :
        /\ Pay(o)
        /\ \/ /\ o = "ok"
              /\ sess' = UpsertAll(sess, Name, RecordRows(RemoteRecords))
              /\ count' = Len(RecordRows(RemoteRecords))
              /\ step' = "commit"
              /\ log' = Append(log, o)
              /\ UNCHANGED <<db, cat, unit, ids, act_ids, errors, endurance,
                             results, warnings, days, out, calls, active, ver,
                             before, cur, prev>>
           \/ /\ o = "empty"
              \* `if d:` is false: no commit, return count, None
              /\ UNCHANGED <<db, sess>>
              /\ Returned(0, None, act_ids, db, Append(log, o))
           \/ /\ o = "raise"
              /\ \E m \in Msgs :
                    /\ RolledBack
                    /\ Returned(0, Some(m), act_ids, db, Append(log, o))

----------------------------------------------------------------------------
(* session.commit() at the end of a syncer that commits once, and its      *)
(* `except Exception as e: session.rollback(); return count, str(e)`       *)

CommitCategory ==
    /\ gw = GwIdle /\ UNCHANGED <<gw, zn, pf>>
    /\ cat # 0 /\ Name \notin DetailCats /\ step = "commit"
    /\ LET aids == IF cat = 1 THEN ids ELSE act_ids
       IN  \/ /\ budget' = budget
              /\ Committed
              /\ Returned(count, None, aids, sess, Append(log, "commit"))
           \/ /\ Pay("commit_fail")
              /\ \E m \in Msgs :
                    /\ RolledBack
                    /\ Returned(count, Some(m), aids, db,
                                Append(log, "commit_fail"))

----------------------------------------------------------------------------
(* _sync_activity_hr_zones and _sync_activity_splits *)

DetailRows(aid, n) == [i \in 1..n |-> Row(<<aid, i>>, Payload(ver))]

\* the variant that first drops the rows the activity already has
DetailWrite_purge(view, model, aid, n) ==
    LET kept == {r \in BagToSet(view[model]) : r.pk[1] # aid}
    IN  UpsertAll([view EXCEPT ![model] = SetToBag(kept)], model,
                  DetailRows(aid, n))

\* the upserts of one activity's zones (splits), ordinals 1..n
DetailWrite(view, model, aid, n) == UpsertAll(view, model, DetailRows(aid, n))

\* "; ".join(errors)
RECURSIVE Join(_)
Join(errs) ==
    IF Len(errs) = 1 THEN errs[1]
    ELSE errs[1] \o "; " \o Join(Tail(errs))

\* `return count, None` / `return count, "; ".join(errors) if errors else None`
DetailError(errs) ==
    IF Name = "activity_splits" /\ errs # <<>> THEN Some(Join(errs)) ELSE None

\* errors.append(f"splits({aid}): {e}")
SplitError(aid, m) == "splits(" \o aid \o "): " \o m

\* the loop without its try: the first failing activity ends the syncer
NextActivity_abort(cnt, errs, newDb, lg) ==
    IF unit = Len(act_ids) \/ lg[Len(lg)] \in {"raise", "commit_fail"}
    THEN Returned(cnt, DetailError(errs), act_ids, newDb, lg)
    ELSE /\ unit' = unit + 1
         /\ step' = "fetch"
         /\ count' = cnt
         /\ errors' = errs
         /\ log' = lg
         /\ UNCHANGED <<cat, ids, act_ids, endurance, results, warnings, days,
                        out, calls, active, ver, before, cur, prev>>

\* the loop goes on to the next activity, or the syncer returns
NextActivity(cnt, errs, newDb, lg) ==
    IF unit = Len(act_ids)
    THEN Returned(cnt, DetailError(errs), act_ids, newDb, lg)
    ELSE /\ unit' = unit + 1
         /\ step' = "fetch"
         /\ count' = cnt
         /\ errors' = errs
         /\ log' = lg
         /\ UNCHANGED <<cat, ids, act_ids, endurance, results, warnings, days,
                        out, calls, active, ver, before, cur, prev>>

\* the fetch of one activity's detail and the upsert of its rows
FetchDetail ==
    /\ gw = GwIdle /\ UNCHANGED <<gw, zn, pf>>
    /\ cat # 0 /\ Name \in DetailCats /\ step = "fetch"
    /\ LET aid == act_ids[unit]
       IN  \E o \in {"ok", "empty", "raise"} :
            /\ Pay(o)
            /\ \/ /\ o = "ok"
                  /\ sess' = DetailWrite(sess, Name, aid, RemoteOrdinals(ver))
                  /\ count' = count + RemoteOrdinals(ver)
                  /\ step' = "commit"
                  /\ log' = Append(log, o)
                  /\ UNCHANGED <<db, cat, unit, ids, act_ids, errors, endurance,
                                 results, warnings, days, out, calls, active,
                                 ver, before, cur, prev>>
               \/ /\ o = "empty"
                  \* `if not d: continue`
                  /\ UNCHANGED <<db, sess>>
                  /\ NextActivity(count, errors, db, Append(log, o))
               \/ /\ o = "raise"
                  /\ \E m \in Msgs :
                        /\ RolledBack
                        /\ NextActivity(count,
                               IF Name = "activity_splits"
                               THEN Append(errors, SplitError(aid, m))
                               ELSE errors,
                               db, Append(log, o))

\* session.commit() after one activity's rows
CommitDetail ==
    /\ gw = GwIdle /\ UNCHANGED <<gw, zn, pf>>
    /\ cat # 0 /\ Name \in DetailCats /\ step = "commit"
    /\ LET aid == act_ids[unit]
       IN  \/ /\ budget' = budget
              /\ Committed
              /\ NextActivity(count, errors, sess, Append(log, "commit"))
           \/ /\ Pay("commit_fail")
              /\ \E m \in Msgs :
                    /\ RolledBack
                    /\ NextActivity(count,
                           IF Name = "activity_splits"
                           THEN Append(errors, SplitError(aid, m))
                           ELSE errors,
                           db, Append(log, "commit_fail"))

----------------------------------------------------------------------------

\* a step of the running sync_all
RunStep ==
    \/ FetchActivities
    \/ FetchDate
    \/ FetchBodyComposition
    \/ FetchEndurance
    \/ FetchHill
    \/ FetchRacePredictions
    \/ FetchPersonalRecords
    \/ CommitCategory
    \/ FetchDetail
    \/ CommitDetail

\* the rows a statement sees through the sync engine's own session
Visible_in_session(committed, pending) == pending

\* the rows a statement sees on the gateway's connection: _get_session()
\* creates an engine and a session of its own for every call, and the rows
\* the sync session has written and not committed are in that session's
\* open transaction
Visible(committed, pending) == committed

\* the result of a query that read every table
Seen(tables) == [store |-> GwIdle.store, called |-> TRUE, seen |-> tables]

\* a call of query() while sync_all runs: session, execute, fetchmany, close
QueryDuringSync ==
    /\ cat # 0
    /\ gw = GwIdle
    /\ gw' = Seen(Visible(db, sess))
    /\ UNCHANGED <<syncvars, zn, pf>>

\* the result is handed to the caller; the sync engine's next step is
\* explored after that
QueryReturn ==
    /\ gw # GwIdle
    /\ gw' = GwIdle
    /\ UNCHANGED <<syncvars, zn, pf>>

Next ==
    \/ SyncAll
    \/ RemoteChange
    \/ RunStep
    \/ QueryDuringSync
    \/ QueryReturn

Spec == Init /\ [][Next]_vars

----------------------------------------------------------------------------
(* A call of query(sql, limit) on the MCP server *)

\* the pieces SQL texts are built from
Pieces == {<<" ">>, <<"x">>, <<"_">>, <<";">>,
           <<"s", "e", "l", "e", "c", "t">>, SELECT,
           <<"d", "r", "o", "p">>, <<"A", "t", "t", "a", "c", "h">>,
           <<"r", "e", "p", "l", "a", "c", "e">>}

\* the texts of at most k pieces
RECURSIVE Texts(_)
Texts(k) ==
    IF k = 0 THEN {<<>>}
    ELSE LET T == Texts(k - 1) IN T \cup {t \o p : t \in T, p \in Pieces}

\* the limit arguments: the default, values below and above it, above the
\* ceiling, zero and negative
Limits == {0 - 1, 0, 10, 100, 5000}

\* the store files: no tables yet, or the tables with 0, 10 or 1500 rows in
\* the table read
StoreFiles == {StoreFile(FALSE, 0, 0)} \cup {StoreFile(TRUE, n, 0) : n \in {0, 10, 1500}}

InitQuery ==
    /\ SyncInit
    /\ zn = ZnIdle
    /\ pf = PfIdle
    /\ gw \in {Asked(f, sql, limit) :
                 f \in StoreFiles, sql \in Texts(MaxPieces), limit \in Limits}

\* the tool call: the whole of query(), with the step at which the store
\* engine fails chosen by the environment
Query ==
    /\ ~gw.called
    /\ \E fail \in {"none", "open", "execute", "fetchmany"} :
           gw' = query(gw, fail)
    /\ UNCHANGED <<syncvars, zn, pf>>

NextQuery == Query

SpecQuery == InitQuery /\ [][NextQuery]_vars

----------------------------------------------------------------------------
(* The zones of one activity, as _sync_activity_hr_zones writes them *)

\* start boundaries of a zone
Starts == {0, 100, 140, 160}

\* a zone of the payload gives its start under one of the two keys
ZoneDicts ==
    {[k \in {"zoneLowBoundary"} |-> v] : v \in Starts}
    \cup {[k \in {"startBpm"} |-> v] : v \in Starts}

RECURSIVE Payloads(_)
Payloads(n) ==
    IF n = 0 THEN {<<>>}
    ELSE LET P == Payloads(n - 1) IN P \cup {Append(p, z) : p \in P, z \in ZoneDicts}

InitZones ==
    /\ SyncInit
    /\ gw = GwIdle
    /\ pf = PfIdle
    /\ zn \in {[zones |-> p, applied |-> FALSE, rows |-> <<>>] : p \in Payloads(MaxZones)}

\* the loop of lines 525-543 over the payload of one activity
WriteZones ==
    /\ ~zn.applied
    /\ zn.zones # <<>>
    /\ zn' = [zn EXCEPT !.applied = TRUE, !.rows = hr_zones(zn.zones)]
    /\ UNCHANGED <<syncvars, gw, pf>>

NextZones == WriteZones

SpecZones == InitZones /\ [][NextZones]_vars

TypeOK ==
    /\ cat \in 0..Len(Order)
    /\ budget \in 0..Budget
    /\ count \in Nat
    /\ DOMAIN results \subseteq Cats

----------------------------------------------------------------------------
(* Properties *)

Occ(seq, x) == Cardinality({i \in 1..Len(seq) : seq[i] = x})

Finished == cat = 0 /\ out # NoOut

NonDetailCats == Cats \ DetailCats

\* the eight categories sync_all calls with (start, end)
DateRangedCats == PerDateCats \cup {"body_composition", "fitness_scores"}

\* an error that is a non-empty string
NonEmptyError(e) == Len(e) = 1 /\ e[1] # ""

\* the fetch outcomes of a call's log, in order
Fetches(lg) == SelectSeq(lg, LAMBDA o : o \in {"ok", "empty", "partial", "raise"})

CommitOk(lg) == lg # <<>> /\ lg[Len(lg)] = "commit"

\* the syncers that completed in the running / last sync_all
Done == DOMAIN results

\* C1: whatever fetches and commits fail, a running sync_all is at a
\* position from which its next step is defined, and when it returns it returns a result and has
\* invoked each of the eleven non-detail syncers exactly once; no syncer is
\* ever invoked twice in one run.
C1_EveryCategoryOnce ==
    /\ \A c \in Cats : Occ(calls, c) <= 1
    /\ cat # 0 =>
          \/ step = "commit"
          \/ step = "hill" /\ calls[Len(calls)] = "fitness_scores"
          \/ /\ step = "fetch"
             /\ calls[Len(calls)] \in PerDateCats => unit <= days + 1
             /\ calls[Len(calls)] \in DetailCats => unit <= Len(act_ids)
    /\ Finished =>
          /\ out.status = "ok"
          /\ \A c \in NonDetailCats : Occ(calls, c) = 1 /\ c \in DOMAIN out.synced

\* a run that returned although two categories reported an error
C1_Witness ==
    /\ Finished
    /\ Cardinality({c \in NonDetailCats : cur[c].called /\ cur[c].err # None}) >= 2

\* C2: the result of sync_all has status "ok" and no `error` key; it has a
\* `warnings` key iff some syncer of the run returned a non-empty error
\* string, and then warnings lists "<category>: <message>" for exactly
\* those syncers, in run order.
C2_StatusAndWarnings ==
    Finished =>
       LET failed == SelectSeq(calls, LAMBDA c : NonEmptyError(cur[c].err))
           expected == [i \in 1..Len(failed) |->
                           failed[i] \o ": " \o cur[failed[i]].err[1]]
       IN  /\ out.status = "ok"
           /\ "error" \notin DOMAIN out
           /\ ("warnings" \in DOMAIN out) <=> (failed # <<>>)
           /\ ("warnings" \in DOMAIN out) => out.warnings = expected

\* a run with one warning, in which another syncer returned the empty string
\* as its error
C2_Witness ==
    /\ Finished
    /\ "warnings" \in DOMAIN out
    /\ Len(out.warnings) = 1
    /\ \E c \in Cats : cur[c].called /\ cur[c].err = Some("")

\* position of a category in the order activities, date-ranged, non-dated,
\* per-activity detail
Class(c) ==
    IF c = "activities" THEN 1
    ELSE IF c \in DateRangedCats THEN 2
    ELSE IF c \in {"race_predictions", "personal_records"} THEN 3
    ELSE 4

\* C3: the syncers run in the order activities, the eight date-ranged
\* categories, race_predictions and personal_records, then the two detail
\* syncers; a detail syncer starts only after activities has returned its
\* identifier list; at most one syncer executes at a time.
C3_RunOrder ==
    /\ calls # <<>> => calls[1] = "activities"
    /\ \A i, j \in 1..Len(calls) : i < j => Class(calls[i]) <= Class(calls[j])
    /\ \A i, j \in 1..Len(calls) :
          (i < j /\ calls[i] = "personal_records") => calls[j] \in DetailCats
    /\ \A i, j \in 1..Len(calls) :
          (i < j /\ calls[j] = "race_predictions") => calls[i] # "personal_records"
    /\ \A i, j \in 1..Len(calls) :
          (i < j /\ calls[j] = "activity_hr_zones") => calls[i] # "activity_splits"
    /\ \A c \in DetailCats :
          c \in Range(calls) => /\ "activities" \in Done
                                /\ act_ids = cur["activities"].ids
    /\ Cardinality(active) <= 1
    /\ cat # 0 => active = {calls[Len(calls)]}

\* a complete run of all thirteen syncers
C3_Witness == Finished /\ Len(calls) = 13

\* C4: when activities yields no identifier neither detail syncer is
\* invoked and neither has an entry in synced or warnings; when it yields
\* at least one, both are invoked exactly once with that list.
C4_DetailDependency ==
    "activities" \in Done =>
       LET yielded == cur["activities"].ids
       IN  /\ yielded = <<>> =>
                /\ \A c \in DetailCats : c \notin Range(calls) /\ c \notin Done
                /\ \A i \in 1..Len(warnings) :
                      warnings[i] \in {c \o ": " \o m : c \in NonDetailCats, m \in Msgs}
                /\ Finished => /\ DOMAIN out.synced = NonDetailCats
                               /\ "warnings" \in DOMAIN out => out.warnings = warnings
           /\ (yielded # <<>> /\ Finished) =>
                \A c \in DetailCats : /\ Occ(calls, c) = 1
                                      /\ cur[c].given = yielded
                                      /\ c \in DOMAIN out.synced

\* a run whose activities fetch returned nothing and that returned after
\* personal_records
C4_Witness ==
    /\ Finished
    /\ cur["activities"].ids = <<>>
    /\ cur["activities"].err = None
    /\ Len(calls) = 11

\* the calendar date of the i-th iteration of a window of d days back
DateAt(d, i) == i - 1 - d

\* a per-date call in which exactly one fetch raised, every other fetch
\* returned data and the commit succeeded
OneDateRaised(s) ==
    /\ s.called
    /\ CommitOk(s.log)
    /\ Len(Fetches(s.log)) = s.days + 1
    /\ Cardinality({i \in 1..Len(Fetches(s.log)) : s.log[i] = "raise"}) = 1
    /\ \A i \in 1..Len(Fetches(s.log)) : s.log[i] \in {"ok", "raise"}

\* C5: when the fetch of a per-date syncer raises on exactly one date and
\* returns data on all others, it returns (number of dates - 1, None); a
\* row exists for every other date, no row is written for the failing
\* date, and sync_all records no warning for the category.
C5_PerDateIsolation ==
    \A c \in PerDateCats :
       OneDateRaised(cur[c]) =>
          LET s == cur[c]
          IN  /\ s.cnt = s.days
              /\ s.err = None
              /\ \A i \in 1..(s.days + 1) :
                    IF s.log[i] = "raise"
                    THEN RowsOf(s.after, DateAt(s.days, i))
                            = RowsOf(s.before, DateAt(s.days, i))
                    ELSE RowsOf(s.after, DateAt(s.days, i))
                            = {Row(DateAt(s.days, i), Payload(s.ver))}
              /\ c \in Done =>
                    \A i \in 1..Len(warnings) :
                       warnings[i] \notin {c \o ": " \o m : m \in Msgs}

\* a two-date call whose first date raised and whose second date was written
C5_Witness ==
    \E c \in PerDateCats :
       /\ OneDateRaised(cur[c])
       /\ cur[c].days = 1
       /\ cur[c].log[1] = "raise"
       /\ RowsOf(db[c], -1) = {}
       /\ RowsOf(db[c], 0) # {}

\* the rows a fitness_scores call upserts for date ds when its endurance
\* and hill fetches had outcomes oe and oh
ScoreRow(ds, oe, oh, v) ==
    LET e == IF oe = "ok" THEN v ELSE "None"
        h == IF oh = "ok" THEN v ELSE "None"
    IN  Row(ds, [endurance_score |-> e, hill_score |-> h, raw_json |-> <<e, h>>])

\* the per-date algorithm, as observed on a completed call s of table c: one
\* fetch per date; a date whose fetch returned data is upserted, a date whose
\* fetch raised or returned nothing is left as it was; a raising fetch never
\* makes the call report an error
PerDateAlgorithm(c, s) ==
    /\ Len(Fetches(s.log)) = s.days + 1
    /\ CommitOk(s.log) =>
          /\ s.err = None
          /\ \A i \in 1..(s.days + 1) :
                IF s.log[i] = "ok"
                THEN RowsOf(s.after, DateAt(s.days, i))
                        = {Row(DateAt(s.days, i), Payload(s.ver))}
                ELSE RowsOf(s.after, DateAt(s.days, i))
                        = RowsOf(s.before, DateAt(s.days, i))

\* C6 as stated: all eight date-ranged categories follow the per-date
\* algorithm.
C6_AllEightPerDate ==
    \A c \in DateRangedCats : cur[c].called => PerDateAlgorithm(c, cur[c])

\* C6 (amended): the six single-date syncers follow the per-date algorithm;
\* body_composition makes one fetch for the whole window, and when that
\* fetch raises the call returns count 0 with the error and writes nothing;
\* fitness_scores makes two fetches for the whole window, swallows an
\* exception of either, and upserts every date either of them reported.
C6_SixPerDate ==
    /\ \A c \in PerDateCats : cur[c].called => PerDateAlgorithm(c, cur[c])
    /\ LET s == cur["body_composition"]
       IN  s.called =>
              /\ Len(Fetches(s.log)) = 1
              /\ s.log[1] = "raise" =>
                    /\ s.cnt = 0
                    /\ s.err # None
                    /\ s.after = s.before
              /\ (s.log[1] = "ok" /\ CommitOk(s.log)) =>
                    /\ s.cnt = s.days + 1
                    /\ \A i \in 1..(s.days + 1) :
                          RowsOf(s.after, DateAt(s.days, i))
                             = {Row(DateAt(s.days, i), Payload(s.ver))}
    /\ LET s == cur["fitness_scores"]
       IN  s.called =>
              /\ Len(Fetches(s.log)) = 2
              /\ CommitOk(s.log) =>
                    /\ s.err = None
                    /\ IF s.log[1] = "ok" \/ s.log[2] = "ok"
                       THEN /\ s.cnt = s.days + 1
                            /\ \A i \in 1..(s.days + 1) :
                                  RowsOf(s.after, DateAt(s.days, i))
                                     = {ScoreRow(DateAt(s.days, i), s.log[1],
                                                 s.log[2], s.ver)}
                       ELSE s.cnt = 0 /\ s.after = s.before

\* one run over two dates in which a daily_summary date raised and was
\* skipped, and the single body_composition fetch raised and failed the
\* category
C6_Witness ==
    /\ cur["daily_summary"].called
    /\ cur["daily_summary"].log = <<"ok", "raise", "commit">>
    /\ cur["daily_summary"].cnt = 1
    /\ cur["body_composition"].called
    /\ cur["body_composition"].days = 1
    /\ cur["body_composition"].log = <<"raise">>
    /\ cur["body_composition"].err # None

\* the number of upserts a commit-once syncer has made in a call with log lg
Upserted(c, s) ==
    LET f == Fetches(s.log)
        oks == Cardinality({i \in 1..Len(f) : f[i] = "ok"})
    IN  IF c \in PerDateCats THEN oks
        ELSE IF c = "activities"
             THEN (IF f[1] = "ok" THEN 2 ELSE IF f[1] = "partial" THEN 1 ELSE 0)
        ELSE IF c = "body_composition" THEN (IF oks = 1 THEN s.days + 1 ELSE 0)
        ELSE IF c = "fitness_scores" THEN (IF oks >= 1 THEN s.days + 1 ELSE 0)
        ELSE IF c = "race_predictions" THEN oks
        ELSE 2 * oks

\* C7: when a syncer that commits once at its end returns an error (an
\* exception escaped its loop, or the commit failed), none of the rows it
\* upserted in the call is persisted and the rows committed before the call
\* are unchanged, and it returns the count accumulated so far with the
\* exception's message.
C7_CategoryFailureRollsBack ==
    \A c \in NonDetailCats :
       (cur[c].called /\ cur[c].err # None) =>
          /\ cur[c].after = cur[c].before
          /\ c \in Done => db[c] = cur[c].before
          /\ cur[c].cnt = Upserted(c, cur[c])
          /\ \E m \in Msgs : cur[c].err = Some(m)

\* a commit failed after the syncer had upserted rows over rows of an
\* earlier run, and a later syncer of the same run has committed since
C7_Witness ==
    \E c \in PerDateCats :
       /\ c \in Done
       /\ cur[c].err # None
       /\ cur[c].cnt > 0
       /\ cur[c].before # EmptyBag
       /\ "personal_records" \in Done

\* the categories synced for a date window
WindowCats == {"activities"} \cup DateRangedCats

\* the latest two calls of syncer c had the same window and met the same
\* remote data set and the same behaviour of the remote and the store
Repeated(c) ==
    /\ prev[c].called
    /\ cur[c].called
    /\ prev[c].days = cur[c].days
    /\ prev[c].ver = cur[c].ver
    /\ prev[c].log = cur[c].log

NoDuplicateRow(table) == \A r \in BagToSet(table) : CopiesIn(r, table) = 1

\* C8: a second run of a syncer for the same window against an unchanged
\* remote data set returns the same row count as the first and leaves the
\* table exactly as the first run left it, without duplicated rows.
C8_SyncerIdempotent ==
    \A c \in WindowCats :
       Repeated(c) =>
          /\ cur[c].cnt = prev[c].cnt
          /\ cur[c].after = prev[c].after
          /\ NoDuplicateRow(cur[c].after)

\* a syncer ran twice over two dates, wrote rows the first time and committed
\* both times
C8_Witness ==
    \E c \in WindowCats :
       /\ Repeated(c)
       /\ cur[c].days = 1
       /\ CommitOk(cur[c].log)
       /\ cur[c].cnt = 2
       /\ prev[c].before = EmptyBag
       /\ cur[c].after # EmptyBag

\* at most one row per primary key
UniqueKeys(view) ==
    \A t \in Cats :
       /\ NoDuplicateRow(view[t])
       /\ \A r1, r2 \in BagToSet(view[t]) : r1.pk = r2.pk => r1 = r2

\* a detail call in which every activity was fetched and committed
AllDetailOk(s) ==
    /\ s.called
    /\ Len(s.log) = 2 * Len(s.given)
    /\ \A i \in 1..Len(s.log) :
          s.log[i] = (IF i % 2 = 1 THEN "ok" ELSE "commit")

\* C9: every table, committed or in the session, holds at most one row per
\* primary key (date, id, or (activity id, ordinal)), and the row of a key
\* holds the values of the most recent committed upsert of that key.
C9_UniqueKeyLastWriterWins ==
    /\ UniqueKeys(db)
    /\ UniqueKeys(sess)
    /\ \A c \in PerDateCats :
          (cur[c].called /\ CommitOk(cur[c].log)) =>
             \A i \in 1..(cur[c].days + 1) :
                cur[c].log[i] = "ok" =>
                   RowsOf(db[c], DateAt(cur[c].days, i))
                      = {Row(DateAt(cur[c].days, i), Payload(cur[c].ver))}
    /\ LET s == cur["activities"]
       IN  (s.called /\ s.log = <<"ok", "commit">>) =>
              \A a \in Range(s.ids) :
                 RowsOf(db["activities"], a) = {Row(a, Payload(s.ver))}
    /\ \A c \in DetailCats :
          (AllDetailOk(cur[c]) /\ c \notin active) =>
             \A a \in Range(cur[c].given) :
                \A i \in 1..RemoteOrdinals(cur[c].ver) :
                   RowsOf(db[c], <<a, i>>) = {Row(<<a, i>>, Payload(cur[c].ver))}

\* a key written by two runs with different values holds the later value
C9_Witness ==
    \E c \in PerDateCats :
       /\ prev[c].called /\ CommitOk(prev[c].log) /\ prev[c].log[1] = "ok"
       /\ cur[c].called /\ CommitOk(cur[c].log) /\ cur[c].log[1] = "ok"
       /\ prev[c].days = cur[c].days
       /\ prev[c].ver # cur[c].ver
       /\ RowsOf(prev[c].after, 0 - cur[c].days) # RowsOf(db[c], 0 - cur[c].days)

\* C10: no step removes a committed row's key: the set of primary keys of
\* every table only grows.
C10_NoDeletion ==
    [][\A t \in Cats : Keys(db[t]) \subseteq Keys(db'[t])]_vars

\* an activity re-synced with one split after a sync with two keeps the row
\* of split 2 as the first sync wrote it
C10_Witness ==
    LET s == cur["activity_splits"]
        p == prev["activity_splits"]
    IN  /\ AllDetailOk(p) /\ p.ver = 1
        /\ AllDetailOk(s) /\ s.ver = 2
        /\ "a1" \in Range(s.given)
        /\ RowsOf(db["activity_splits"], <<"a1", 1>>) = {Row(<<"a1", 1>>, Payload(2))}
        /\ RowsOf(db["activity_splits"], <<"a1", 2>>) = {Row(<<"a1", 2>>, Payload(1))}

----------------------------------------------------------------------------
(* Properties of the query gateway (SpecQuery) *)

select == <<"s", "e", "l", "e", "c", "t">>

\* after leading whitespace the text reads SELECT, in any letter case
LeadingSelect(sql) ==
    \E k \in 0..Len(sql) :
       /\ \A j \in 1..k : isspace(sql[j])
       /\ k + Len(SELECT) <= Len(sql)
       /\ \A j \in 1..Len(SELECT) : sql[k + j] \in {SELECT[j], select[j]}

OnlySelect == [error |-> "Only SELECT queries are allowed."]

\* C11: a call of query with a text that does not read SELECT after its
\* leading whitespace returns the error "Only SELECT queries are allowed.",
\* raises nothing, opens no session, hands nothing to the store and leaves
\* the store file as it was.
C11_LeadingKeyword ==
    (gw.called /\ ~LeadingSelect(gw.sql)) =>
        /\ gw.ret = OnlySelect
        /\ ~gw.opened /\ ~gw.executed
        /\ gw.store = gw.before

\* "x select" holds the keyword, but not at its start, and is refused
C11_Witness ==
    /\ gw.called
    /\ gw.sql = <<"x", " ", "s", "e", "l", "e", "c", "t">>
    /\ gw.ret = OnlySelect
    /\ ~gw.opened

\* the text holds w as a whole word, in any letter case: an occurrence with
\* no word character next to it on either side
WholeWord(s, w) ==
    \E i \in 1..Len(s) :
       LET j == i + Len(w) - 1
       IN  /\ j <= Len(s)
           /\ upper(SubSeq(s, i, j)) = w
           /\ (i = 1 \/ ~isword(s[i - 1]))
           /\ (j = Len(s) \/ ~isword(s[j + 1]))

NoModification == [error |-> "Modification queries are not allowed."]

\* C12: a call of query with a text that starts with SELECT and holds one of
\* DROP, DELETE, UPDATE, INSERT, ALTER, CREATE, ATTACH as a whole word, in
\* any letter case, returns an error result; no session is opened and
\* nothing is handed to the store.
C12_Denylist ==
    (/\ gw.called
     /\ LeadingSelect(gw.sql)
     /\ \E w \in Denylist : WholeWord(gw.sql, w)) =>
        /\ gw.ret = NoModification
        /\ ~gw.opened /\ ~gw.executed
        /\ gw.store = gw.before

\* the compound text "SELECT;drop" is refused because of its second statement
C12_Witness ==
    /\ gw.called
    /\ gw.sql = SELECT \o <<";", "d", "r", "o", "p">>
    /\ gw.ret = NoModification
    /\ ~gw.executed

\* C13: a call of query leaves the store file as it found it: no statement
\* that changes the store is executed, and opening the session writes
\* nothing.
C13_StoreUnchanged == gw.called => gw.store = gw.before

\* the call returned a {columns, rows, row_count, truncated} result
Succeeded == gw.called /\ "rows" \in DOMAIN gw.ret

\* C14: a successful query returns at most 1000 rows and at most as many
\* rows as the caller's limit, whatever that limit is.
C14_RowCap ==
    Succeeded => Len(gw.ret.rows) <= MaxLimit /\ Len(gw.ret.rows) <= gw.limit

\* min(limit, 1000) computed from the caller's argument
Clamped == IF gw.limit > MaxLimit THEN MaxLimit ELSE gw.limit

\* C15: in a successful result row_count is the number of rows returned and
\* truncated is true exactly when that number equals the clamped limit.
C15_TruncationFlag ==
    Succeeded =>
        /\ gw.ret.row_count = Len(gw.ret.rows)
        /\ gw.ret.truncated = (Len(gw.ret.rows) = Clamped)

\* 10 rows with limit=100: 10 rows returned, truncated false
C15_Witness ==
    /\ Succeeded
    /\ gw.limit = 100
    /\ gw.before.rows = 10
    /\ gw.ret.row_count = 10
    /\ gw.ret.truncated = FALSE

\* 1500 rows with limit=5000: 1000 rows returned, truncated true
C15_WitnessCapped ==
    /\ Succeeded
    /\ gw.limit = 5000
    /\ gw.before.rows = 1500
    /\ gw.ret.row_count = MaxLimit
    /\ gw.ret.truncated = TRUE

\* C16: a call of query never raises: it returns a result or an error
\* result, and a session it opened is closed.
C16_NeverRaised ==
    gw.called =>
        /\ "raised" \notin DOMAIN gw.ret
        /\ gw.opened => gw.closed

----------------------------------------------------------------------------
(* Properties of the sync engine (Spec), continued *)

\* what happened to each activity of a detail call, in the order of the
\* identifier list: "commit" (its rows were committed), "commit_fail",
\* "raise" or "empty"
RECURSIVE Outcomes(_)
Outcomes(lg) ==
    IF lg = <<>> THEN <<>>
    ELSE IF lg[1] = "ok" /\ Len(lg) >= 2
         THEN <<lg[2]>> \o Outcomes(SubSeq(lg, 3, Len(lg)))
    ELSE <<lg[1]>> \o Outcomes(Tail(lg))

\* the rows of activity a in a detail table
RowsOfActivity(table, a) == {r \in BagToSet(table) : r.pk[1] = a}

\* C17: in a detail syncer an activity whose fetch or commit fails loses
\* only its own uncommitted rows: its rows in the store are those it had
\* before the call, the rows committed for the other activities are in the
\* store, and every activity of the identifier list is processed.
C17_PerActivityIsolation ==
    \A c \in DetailCats :
       cur[c].called =>
          LET s == cur[c]
              o == Outcomes(s.log)
          IN  /\ Len(o) = Len(s.given)
              /\ \A i \in 1..Len(o) :
                    IF o[i] = "commit"
                    THEN \A k \in 1..RemoteOrdinals(s.ver) :
                            RowsOf(s.after, <<s.given[i], k>>)
                               = {Row(<<s.given[i], k>>, Payload(s.ver))}
                    ELSE RowsOfActivity(s.after, s.given[i])
                            = RowsOfActivity(s.before, s.given[i])

\* the commit of the first activity failed and the second activity was
\* still fetched and committed
C17_Witness ==
    \E c \in DetailCats :
       /\ cur[c].called
       /\ cur[c].given = <<"a1", "a2">>
       /\ cur[c].log = <<"ok", "commit_fail", "ok", "commit">>
       /\ RowsOfActivity(cur[c].after, "a1") = {}
       /\ RowsOfActivity(cur[c].after, "a2") # {}

\* the failures of the call were confined to single units: dates whose fetch
\* raised in a per-date syncer whose commit succeeded, or activities whose
\* fetch or commit failed in a detail syncer
UnitFailuresOnly(c, s) ==
    /\ s.called
    /\ \E i \in 1..Len(s.log) : s.log[i] \in {"raise", "commit_fail"}
    /\ c \in PerDateCats => CommitOk(s.log)

\* C18: a syncer whose only failures were failures of single units (dates,
\* activities) leaves no entry in the warnings of the sync result.
C18_UnitFailureNoWarning ==
    \A c \in (PerDateCats \cup DetailCats) \cap Done :
       UnitFailuresOnly(c, cur[c]) =>
          \/ cur[c].err = None
          \/ Fmt(c, cur[c].err[1]) \notin Range(warnings)

----------------------------------------------------------------------------
(* Properties of the zone rows (SpecZones) *)

\* the start value of a zone, under the key the payload uses
StartOf(z) ==
    IF "zoneLowBoundary" \in DOMAIN z THEN z["zoneLowBoundary"] ELSE z["startBpm"]

\* C19: the row written for zone i has min_hr equal to the start of zone i
\* and max_hr equal to the start of zone i+1 minus 1; the row of the last
\* zone has no max_hr.
C19_ZoneBoundaries ==
    zn.applied =>
       \A i \in 1..Len(zn.zones) :
          /\ zn.rows[i].min_hr = Some(StartOf(zn.zones[i]))
          /\ zn.rows[i].max_hr = (IF i < Len(zn.zones)
                                  THEN Some(StartOf(zn.zones[i + 1]) - 1)
                                  ELSE None)

----------------------------------------------------------------------------
(* Properties of the sync engine (Spec): empty payloads *)

\* the positions of the window at which the fetch returned an empty payload
EmptyDates(s) == {i \in 1..Len(Fetches(s.log)) : s.log[i] = "empty"}

\* C20: a per-date syncer skips a date whose payload is empty: the rows of
\* that date are those the store held before the call, the date is not
\* counted, the call reports no error because of it, and the remaining
\* dates of the window are still fetched.
C20_EmptySkipped ==
    \A c \in PerDateCats :
       cur[c].called =>
          LET s == cur[c]
              f == Fetches(s.log)
          IN  /\ Len(f) = s.days + 1
              /\ \A i \in EmptyDates(s) :
                    RowsOf(s.after, DateAt(s.days, i))
                       = RowsOf(s.before, DateAt(s.days, i))
              /\ CommitOk(s.log) =>
                    /\ s.err = None
                    /\ s.cnt = Cardinality({i \in 1..Len(f) : f[i] = "ok"})

\* the first date of a two-date window came back empty: its row from the
\* earlier run is still there, the second date was fetched and counted
C20_Witness ==
    \E c \in PerDateCats :
       LET s == cur[c]
       IN  /\ s.called
           /\ s.log = <<"empty", "ok", "commit">>
           /\ s.cnt = 1 /\ s.err = None
           /\ RowsOf(s.before, 0 - 1) # {}
           /\ RowsOf(s.after, 0 - 1) = RowsOf(s.before, 0 - 1)

----------------------------------------------------------------------------
(* Properties of the sync engine (Spec): transactions *)

\* C21: whenever a category syncer begins, and whenever a detail syncer
\* begins the next activity, the session holds no uncommitted write: the
\* session's view equals the committed store.  The same holds when sync_all
\* is not running.
C21_TransactionBoundaries ==
    /\ (cat # 0 /\ step = "fetch" /\ log = <<>>) => sess = db
    /\ (cat # 0 /\ Name \in DetailCats /\ step = "fetch") => sess = db
    /\ cat = 0 => sess = db

\* the zones syncer begins its second activity after the first was skipped
\* on an empty payload, without a commit, and the session is clean
C21_Witness ==
    /\ cat # 0 /\ Name = "activity_hr_zones"
    /\ step = "fetch" /\ unit = Len(act_ids) /\ log = <<"empty">>
    /\ db["activities"] # EmptyBag
    /\ sess = db

\* C22: a query that reads the store while sync_all runs sees committed rows
\* only: of the category that is running (and commits once, at its end) it
\* sees the table as it was when the category began, of a category that has
\* completed in this run it sees the table as that category left it.
C22_ReadsCommitted ==
    (cat # 0 /\ gw # GwIdle) =>
        /\ Name \in NonDetailCats => gw.seen[Name] = before
        /\ \A c \in Done \cap NonDetailCats : gw.seen[c] = cur[c].after

\* a query during daily_summary sees the activities this run committed and
\* none of the daily rows the session has written so far
C22_Witness ==
    /\ cat # 0 /\ gw # GwIdle
    /\ Name = "daily_summary"
    /\ sess[Name] # db[Name]
    /\ gw.seen["activities"] # EmptyBag
    /\ gw.seen[Name] = EmptyBag

----------------------------------------------------------------------------
(* The date loop of a per-date syncer, for any start and end.  In sync_all  *)
(* start is end - timedelta(days=days) with an int `days`, so start and end *)
(* differ by whole days and are day numbers here.                           *)

MaxDate == 4       \* start and end range over -MaxDate..MaxDate

InitDates ==
    /\ SyncInit
    /\ gw = GwIdle
    /\ zn = ZnIdle
    /\ pf \in {[fn |-> "_date_range", start |-> a, end |-> b, applied |-> FALSE] :
                 a, b \in (0 - MaxDate)..MaxDate}

\* `for cur in _date_range(start, end): ... client.get_stats(ds)`: the dates
\* fetched by the loop, in the order of the fetches
FetchDates ==
    /\ pf.fn = "_date_range" /\ ~pf.applied
    /\ pf' = [fn |-> pf.fn, start |-> pf.start, end |-> pf.end, applied |-> TRUE,
              fetched |-> _date_range(pf.start, pf.end)]
    /\ UNCHANGED <<syncvars, gw, zn>>

NextDates == FetchDates

SpecDates == InitDates /\ [][NextDates]_vars

\* C23: the date loop of a per-date syncer ends, and it has fetched every
\* date from start to end inclusive exactly once, oldest first; it fetches
\* nothing when start is after end.
C23_DateEnumeration ==
    (pf.fn = "_date_range" /\ pf.applied) =>
        LET n == IF pf.start <= pf.end THEN pf.end - pf.start + 1 ELSE 0
        IN  /\ Len(pf.fetched) = n
            /\ \A i \in 1..n : pf.fetched[i] = pf.start + i - 1

\* a window of three dates is fetched oldest first
C23_Witness ==
    /\ pf.fn = "_date_range" /\ pf.applied
    /\ pf.start = 0 - 2 /\ pf.end = 0
    /\ pf.fetched = <<0 - 2, 0 - 1, 0>>

\* a window whose start is after its end is not fetched at all
C23_WitnessEmpty ==
    /\ pf.fn = "_date_range" /\ pf.applied
    /\ pf.start > pf.end
    /\ pf.fetched = <<>>

----------------------------------------------------------------------------
(* The normalization of one training-readiness payload, lines 297-304 *)

\* `a or b` on str | None: a unless it is None or ""
or_str(a, b) == IF a # None /\ a[1] # "" THEN a ELSE b

\* the values of lines 298-299 for the payload d
readiness_vals(d) ==
    [score |-> or(_g(d, "score"), _g(d, "trainingReadinessScore")),
     level |-> or_str(_g(d, "level"), _g(d, "trainingReadinessLevel"))]

\* a dict with the key k, or without it
Opt(k, V) == {<<>>} \cup {k :> v : v \in V}

\* the payloads: each of the four keys absent or present, a score 0 or
\* positive, a level empty or not
ReadinessPayloads ==
    {a @@ b @@ c @@ e :
        a \in Opt("score", {0, 55}),
        b \in Opt("trainingReadinessScore", {0, 70}),
        c \in Opt("level", {"", "HIGH"}),
        e \in Opt("trainingReadinessLevel", {"", "LOW"})} \ {<<>>}

InitReadiness ==
    /\ SyncInit
    /\ gw = GwIdle
    /\ zn = ZnIdle
    /\ pf \in {[fn |-> "readiness", d |-> d, applied |-> FALSE] : d \in ReadinessPayloads}

\* the body of the inner try for one date, after `if not d: continue`
Normalize ==
    /\ pf.fn = "readiness" /\ ~pf.applied
    /\ pf' = [fn |-> pf.fn, d |-> pf.d, applied |-> TRUE,
              vals |-> readiness_vals(pf.d)]
    /\ UNCHANGED <<syncvars, gw, zn>>

NextReadiness == Normalize

SpecReadiness == InitReadiness /\ [][NextReadiness]_vars

\* the value of the first of the keys that the payload holds, None when it
\* holds none of them
RECURSIVE FirstPresent(_, _)
FirstPresent(d, keys) ==
    IF keys = <<>> THEN None
    ELSE IF keys[1] \in DOMAIN d THEN Some(d[keys[1]])
    ELSE FirstPresent(d, Tail(keys))

\* C24: a field read from an ordered list of alternative keys holds the
\* value of the first key the payload has, a 0 or an empty string included.
C24_FirstPresentValue ==
    (pf.fn = "readiness" /\ pf.applied) =>
        /\ pf.vals.score = FirstPresent(pf.d, <<"score", "trainingReadinessScore">>)
        /\ pf.vals.level = FirstPresent(pf.d, <<"level", "trainingReadinessLevel">>)

----------------------------------------------------------------------------
(* The rows a detail syncer writes for one activity, by ordinal *)

\* the rows upserted for the zones of activity aid, lines 527-543
ZoneRows(aid, zones) ==
    [i \in 1..Len(zones) |->
        Row(<<aid, ZoneVals(zones, i).zone>>,
            [min_hr |-> ZoneVals(zones, i).min_hr,
             max_hr |-> ZoneVals(zones, i).max_hr])]

\* `sn = i + 1`, line 567 (i counts from 1 here)
split_num(i) == i

\* the rows upserted for the splits of activity aid, lines 564-587
SplitRows(aid, splits) ==
    [i \in 1..Len(splits) |-> Row(<<aid, split_num(i)>>, splits[i])]

\* a zone of the payload with or without an explicit zone number
NumberedZones == {<<>>} \cup {[k \in {"zoneNumber"} |-> n] : n \in 1..MaxZones}

RECURSIVE SeqsUpTo(_, _)
SeqsUpTo(S, n) ==
    IF n = 0 THEN {<<>>}
    ELSE LET P == SeqsUpTo(S, n - 1) IN P \cup {Append(p, x) : p \in P, x \in S}

InitOrdinals ==
    /\ SyncInit
    /\ gw = GwIdle
    /\ zn = ZnIdle
    /\ pf \in {[fn |-> "activity_hr_zones", payload |-> p, applied |-> FALSE] :
                 p \in SeqsUpTo(NumberedZones, MaxZones) \ {<<>>}}
           \cup {[fn |-> "activity_splits", payload |-> p, applied |-> FALSE] :
                 p \in SeqsUpTo({Payload(1), Payload(2)}, MaxZones) \ {<<>>}}

\* the loop over the zones (splits) of activity "a1" on a table without rows
\* of that activity, and the commit
WriteDetail ==
    /\ pf.fn \in DetailCats /\ ~pf.applied
    /\ LET rows == IF pf.fn = "activity_hr_zones"
                   THEN ZoneRows("a1", pf.payload)
                   ELSE SplitRows("a1", pf.payload)
       IN  pf' = [fn |-> pf.fn, payload |-> pf.payload, applied |-> TRUE,
                  table |-> UpsertAll(db, pf.fn, rows)[pf.fn]]
    /\ UNCHANGED <<syncvars, gw, zn>>

NextOrdinals == WriteDetail

SpecOrdinals == InitOrdinals /\ [][NextOrdinals]_vars

\* the ordinals of the rows of a detail table
Ordinals(table) == {r.pk[2] : r \in BagToSet(table)}

\* the ordinal the payload asks for at position i: the explicit zone number
\* where there is one, the position otherwise
Asked_ordinal(payload, i) ==
    IF "zoneNumber" \in DOMAIN payload[i] THEN payload[i]["zoneNumber"] ELSE i

\* C25 as stated: the rows written for an activity with n zones (splits)
\* carry exactly the ordinals 1..n, one row per ordinal, where a zone takes
\* its explicit number or else its position and a split its position.
C25_DenseOrdinals ==
    (pf.fn \in DetailCats /\ pf.applied) =>
        /\ Ordinals(pf.table) = 1..Len(pf.payload)
        /\ BagCardinality(pf.table) = Len(pf.payload)
        /\ \A i \in 1..Len(pf.payload) :
              Asked_ordinal(pf.payload, i) \in Ordinals(pf.table)

\* every zone of the payload has no explicit number, or its own position
Positional(payload) ==
    \A i \in 1..Len(payload) : Asked_ordinal(payload, i) = i

\* C25: the rows written for an activity carry the ordinals the payload asks
\* for (a zone's explicit number, else its position; a split's position),
\* one row per distinct ordinal; they are exactly 1..n, with n rows, for
\* splits and for zones whose explicit numbers are their positions.
C25_OrdinalsFromPayload ==
    (pf.fn \in DetailCats /\ pf.applied) =>
        /\ Ordinals(pf.table) = {Asked_ordinal(pf.payload, i) : i \in 1..Len(pf.payload)}
        /\ BagCardinality(pf.table) = Cardinality(Ordinals(pf.table))
        /\ Positional(pf.payload) =>
              /\ Ordinals(pf.table) = 1..Len(pf.payload)
              /\ BagCardinality(pf.table) = Len(pf.payload)

\* three zones without explicit numbers are written as zones 1, 2, 3
C25_Witness ==
    /\ pf.fn = "activity_hr_zones" /\ pf.applied
    /\ pf.payload = <<<<>>, <<>>, <<>>>>
    /\ Ordinals(pf.table) = {1, 2, 3}
    /\ BagCardinality(pf.table) = Len(pf.payload)

----------------------------------------------------------------------------
(* The pace of one split, lines 568-574.  A speed is a whole number of      *)
(* tenths of a metre per second, or None.                                   *)

MaxSpeed == 60     \* speeds range from -0.3 m/s to MaxSpeed / 10 m/s

\* `int(1000 / avg_speed)` for a speed of v tenths of a metre per second;
\* None when the division raises ZeroDivisionError
pace_s_per_km(v) == IF v = 0 THEN None ELSE Some(10000 \div v)

\* the outcome of lines 569-574: the exception raised, if any, and pace_str
Pace(error, value) == [error |-> error, pace_str |-> value]

\* f"{pm}:{ps:02d}"
format_pace(pm, ps) ==
    ToString(pm) \o ":" \o (IF ps < 10 THEN "0" ELSE "") \o ToString(ps)

\* the test `if avg_speed is not None and avg_speed >= 0:`
pace_str_from_zero(avg_speed) ==
    IF avg_speed # None /\ avg_speed[1] >= 0
    THEN LET p == pace_s_per_km(avg_speed[1])
         IN  IF p = None THEN Pace(Some("ZeroDivisionError"), None)
             ELSE Pace(None, Some(format_pace(p[1] \div 60, p[1] % 60)))
    ELSE Pace(None, None)

\* pace_str of lines 570-574: `if avg_speed and avg_speed > 0:`, the
\* division, divmod(.., 60) and the format
pace_str(avg_speed) ==
    IF avg_speed # None /\ avg_speed[1] # 0 /\ avg_speed[1] > 0
    THEN LET p == pace_s_per_km(avg_speed[1])
         IN  IF p = None THEN Pace(Some("ZeroDivisionError"), None)
             ELSE Pace(None, Some(format_pace(p[1] \div 60, p[1] % 60)))
    ELSE Pace(None, None)

InitPace ==
    /\ SyncInit
    /\ gw = GwIdle
    /\ zn = ZnIdle
    /\ pf \in {[fn |-> "pace", avg_speed |-> v, applied |-> FALSE] :
                 v \in {None} \cup {Some(x) : x \in (0 - 3)..MaxSpeed}}

\* lines 569-574 for one split
SplitPace ==
    /\ pf.fn = "pace" /\ ~pf.applied
    /\ pf' = [fn |-> pf.fn, avg_speed |-> pf.avg_speed, applied |-> TRUE,
              avg_pace |-> pace_str(pf.avg_speed)]
    /\ UNCHANGED <<syncvars, gw, zn>>

NextPace == SplitPace

SpecPace == InitPace /\ [][NextPace]_vars

\* minutes:seconds, the seconds with two digits
MinSec(m, sec) == ToString(m) \o ":" \o ToString(sec \div 10) \o ToString(sec % 10)

\* C26: avg_pace is present exactly when the split's average speed is a
\* number above 0; it is then the whole seconds of 1000 / speed written as
\* minutes:seconds with seconds in 0..59.  It is absent for a speed that is
\* zero, negative or missing, and no division by zero is performed.
C26_SplitPace ==
    (pf.fn = "pace" /\ pf.applied) =>
        IF pf.avg_speed # None /\ pf.avg_speed[1] > 0
        THEN \E m \in 0..(10000 \div 60) : \E sec \in 0..59 :
                /\ (60 * m + sec) * pf.avg_speed[1] <= 10000
                /\ 10000 < (60 * m + sec + 1) * pf.avg_speed[1]
                /\ pf.avg_pace = Pace(None, Some(MinSec(m, sec)))
        ELSE pf.avg_pace = Pace(None, None)

\* 3.0 m/s is 333 s per kilometre: "5:33"
C26_Witness ==
    /\ pf.fn = "pace" /\ pf.applied
    /\ pf.avg_speed = Some(30)
    /\ pf.avg_pace = Pace(None, Some("5:33"))

\* a speed of 0 gives no pace
C26_WitnessZero ==
    /\ pf.fn = "pace" /\ pf.applied
    /\ pf.avg_speed = Some(0)
    /\ pf.avg_pace = Pace(None, None)

----------------------------------------------------------------------------
(* One call of _upsert(session, model, pk_filter, values) *)

\* the dicts over a subset of the columns "x", "y"
ColumnValues == {a @@ b : a \in Opt("x", {0, 1}), b \in Opt("y", {0, 1})}

\* a table of at most one row per key 1, 2, each row with both columns
SmallTables ==
    {SetToBag(R) : R \in {R \in SUBSET {Row(k, v) : k \in {1, 2},
                                          v \in [{"x", "y"} -> {0, 1}]} :
                             \A r1, r2 \in R : r1.pk = r2.pk => r1 = r2}}

InitUpsert ==
    /\ SyncInit
    /\ gw = GwIdle
    /\ zn = ZnIdle
    /\ pf \in {[fn |-> "_upsert",
                view |-> [t \in {"sleep", "hrv"} |->
                            IF t = "sleep" THEN T ELSE SetToBag({Row(1, [x |-> h, y |-> h])})],
                model |-> m, pk_filter |-> k, values |-> v, applied |-> FALSE] :
                 T \in SmallTables, h \in {0, 1}, m \in {"sleep", "hrv"},
                 k \in {1, 2}, v \in ColumnValues}

\* lines 107-112
Upsert ==
    /\ pf.fn = "_upsert" /\ ~pf.applied
    /\ pf' = [fn |-> pf.fn, view |-> pf.view, model |-> pf.model,
              pk_filter |-> pf.pk_filter, values |-> pf.values, applied |-> TRUE,
              after |-> _upsert(pf.view, pf.model, pf.pk_filter, pf.values)]
    /\ UNCHANGED <<syncvars, gw, zn>>

NextUpsert == Upsert

SpecUpsert == InitUpsert /\ [][NextUpsert]_vars

\* the rows of a table under keys other than pk, with their multiplicity
OtherRows(table, pk) ==
    [r \in {q \in BagToSet(table) : q.pk # pk} |-> CopiesIn(r, table)]

\* C27: an upsert that finds a row under the key leaves one row under it,
\* with the columns named in `values` overwritten and every other column as
\* it was; an upsert that finds none adds the row (key, values); in both
\* cases the rows under other keys and all other tables are as before.
C27_UpsertFrame ==
    (pf.fn = "_upsert" /\ pf.applied) =>
        LET old == RowsOf(pf.view[pf.model], pf.pk_filter)
            new == RowsOf(pf.after[pf.model], pf.pk_filter)
        IN  /\ \A t \in DOMAIN pf.view : t # pf.model => pf.after[t] = pf.view[t]
            /\ OtherRows(pf.after[pf.model], pf.pk_filter)
                  = OtherRows(pf.view[pf.model], pf.pk_filter)
            /\ Cardinality(new) = 1
            /\ \A r \in new :
                  /\ CopiesIn(r, pf.after[pf.model]) = 1
                  /\ \A c \in DOMAIN pf.values : r.vals[c] = pf.values[c]
                  /\ \A o \in old :
                        /\ DOMAIN r.vals = DOMAIN o.vals
                        /\ \A c \in DOMAIN o.vals \ DOMAIN pf.values :
                              r.vals[c] = o.vals[c]
                  /\ old = {} => r.vals = pf.values

\* an upsert of x = 1 alone on the row (x = 0, y = 1) leaves y = 1
C27_Witness ==
    /\ pf.fn = "_upsert" /\ pf.applied
    /\ pf.model = "sleep" /\ pf.pk_filter = 1
    /\ DOMAIN pf.values = {"x"} /\ pf.values["x"] = 1
    /\ RowsOf(pf.view["sleep"], 1) = {Row(1, [x |-> 0, y |-> 1])}
    /\ RowsOf(pf.after["sleep"], 1) = {Row(1, [x |-> 1, y |-> 1])}
    /\ RowsOf(pf.view["sleep"], 2) # {}

----------------------------------------------------------------------------
(* The categories without dates *)

NonDatedCats == {"race_predictions", "personal_records"}

\* the returned records that carry an id
Identified == {i \in 1..Len(RemoteRecords) : RemoteRecords[i] # ""}

\* C28: whatever the window, a syncer of a category without dates fetches
\* once; race_predictions returns 0 or 1 and adds at most one key;
\* personal_records counts and stores the records with a non-empty id, stores
\* nothing under the empty id and reports no error for a record without one.
C28_NonDatedCategories ==
    \A c \in NonDatedCats :
        cur[c].called =>
            /\ Len(Fetches(cur[c].log)) = 1
            /\ cur[c].log[1] \in {"ok", "empty", "raise"}
            /\ c = "race_predictions" =>
                  /\ cur[c].cnt \in {0, 1}
                  /\ Cardinality(Keys(cur[c].after) \ Keys(cur[c].before)) <= 1
                  /\ cur[c].log[1] # "ok" => cur[c].cnt = 0
            /\ c = "personal_records" =>
                  /\ cur[c].cnt = IF cur[c].log[1] = "ok"
                                  THEN Cardinality(Identified) ELSE 0
                  /\ "" \notin Keys(cur[c].after)
                  /\ cur[c].log = <<"ok", "commit">> =>
                        /\ cur[c].err = None
                        /\ \A i \in Identified :
                              RemoteRecords[i] \in Keys(cur[c].after)
                  /\ cur[c].log = <<"empty">> => cur[c].err = None

\* both syncers have stored what one fetch returned, in a run over a window
\* of at least one day
C28_Witness ==
    /\ cur["race_predictions"].called
    /\ cur["race_predictions"].log = <<"ok", "commit">>
    /\ cur["race_predictions"].cnt = 1
    /\ cur["personal_records"].called
    /\ cur["personal_records"].log = <<"ok", "commit">>
    /\ cur["personal_records"].cnt = 2
    /\ cur["personal_records"].err = None
    /\ Keys(cur["personal_records"].after) = {"r1", "r2"}
    /\ cur["personal_records"].days >= 1

----------------------------------------------------------------------------
(* auth.py: login, login_from_tokens, and cmd_sync of cli.py *)

\* EXIT_MFA_REQUIRED, auth.py line 19
EXIT_MFA_REQUIRED == 2

\* what a call ends with: a return, sys.exit(code) or a raised exception;
\* consulted: email/password were read; saved: the tokens were dumped;
\* inited, synced: init_db and sync_all were called
Outcome(kind, code, exc, client, consulted, saved, inited, synced) ==
    [kind |-> kind, code |-> code, exc |-> exc, client |-> client,
     consulted |-> consulted, saved |-> saved, inited |-> inited,
     synced |-> synced]

\* the token directory: missing, holding tokens the remote refuses, or
\* holding valid tokens
TokenDirs == {"missing", "stale", "valid"}

\* _try_resume: None when the directory is missing or client.login(token_dir)
\* raises
_try_resume(token_dir) == IF token_dir = "valid" THEN Some("resumed") ELSE None

\* client.login() with credentials: the remote accepts, refuses, or asks
\* for an MFA code through prompt_mfa (_handle_mfa, lines 51-60)
fresh_login(mfa_code, remote) ==
    IF remote = "refuse"
    THEN Outcome("raise", 0, "GarminConnectAuthenticationError", "none",
                 TRUE, FALSE, FALSE, FALSE)
    ELSE IF remote = "mfa" /\ ~Truthy(mfa_code)
    THEN Outcome("exit", EXIT_MFA_REQUIRED, "", "none", TRUE, FALSE, FALSE, FALSE)
    ELSE Outcome("return", 0, "", "fresh", TRUE, TRUE, FALSE, FALSE)

\* the variant that asks for the credentials before it tries the tokens
login_credentials_first(email, password, mfa_code, token_dir, env, remote) ==
    LET e == or_str(email, env.GARMIN_EMAIL)
        p == or_str(password, env.GARMIN_PASSWORD)
    IN  IF ~Truthy(e) \/ ~Truthy(p)
        THEN Outcome("exit", 1, "", "none", TRUE, FALSE, FALSE, FALSE)
        ELSE IF _try_resume(token_dir) # None
        THEN Outcome("return", 0, "", "resumed", TRUE, FALSE, FALSE, FALSE)
        ELSE fresh_login(mfa_code, remote)

\* login, lines 22-73
login(email, password, mfa_code, token_dir, env, remote) ==
    IF _try_resume(token_dir) # None
    THEN Outcome("return", 0, "", "resumed", FALSE, FALSE, FALSE, FALSE)
    ELSE LET e == or_str(email, env.GARMIN_EMAIL)
             p == or_str(password, env.GARMIN_PASSWORD)
         IN  IF ~Truthy(e) \/ ~Truthy(p)
             THEN Outcome("exit", 1, "", "none", TRUE, FALSE, FALSE, FALSE)
             ELSE fresh_login(mfa_code, remote)

\* login_from_tokens, lines 76-84
login_from_tokens(token_dir) ==
    IF _try_resume(token_dir) = None
    THEN Outcome("raise", 0, "RuntimeError", "none", FALSE, FALSE, FALSE, FALSE)
    ELSE Outcome("return", 0, "", "resumed", FALSE, FALSE, FALSE, FALSE)

\* cmd_sync, cli.py lines 82-95: authenticate, then init_db, then sync_all
cmd_sync(token_dir) ==
    LET auth == login_from_tokens(token_dir)
    IN  IF auth.kind = "raise" /\ auth.exc = "RuntimeError"
        THEN Outcome("exit", 1, "", "none", FALSE, FALSE, FALSE, FALSE)
        ELSE Outcome("return", 0, "", auth.client, FALSE, FALSE, TRUE, TRUE)

NoEnv == [GARMIN_EMAIL |-> None, GARMIN_PASSWORD |-> None]

AuthCall(fn, email, password, mfa_code, token_dir, env, remote) ==
    [fn |-> fn, email |-> email, password |-> password, mfa_code |-> mfa_code,
     token_dir |-> token_dir, env |-> env, remote |-> remote, applied |-> FALSE]

InitAuth ==
    /\ SyncInit
    /\ gw = GwIdle
    /\ zn = ZnIdle
    /\ pf \in {AuthCall("login", e, p, m, t, [GARMIN_EMAIL |-> ee, GARMIN_PASSWORD |-> ep], r) :
                  e \in {None, Some("me@x")}, p \in {None, Some("pw")},
                  m \in {None, Some(""), Some("123456")}, t \in TokenDirs,
                  ee \in {None, Some(""), Some("env@x")},
                  ep \in {None, Some(""), Some("envpw")},
                  r \in {"accept", "mfa", "refuse"}}
          \cup {AuthCall(f, None, None, None, t, NoEnv, "accept") :
                  f \in {"login_from_tokens", "cmd_sync"}, t \in TokenDirs}

Ended(call, res) ==
    [fn |-> call.fn, email |-> call.email, password |-> call.password,
     mfa_code |-> call.mfa_code, token_dir |-> call.token_dir,
     env |-> call.env, remote |-> call.remote, applied |-> TRUE, out |-> res]

Login ==
    /\ pf.fn = "login" /\ ~pf.applied
    /\ pf' = Ended(pf, login(pf.email, pf.password, pf.mfa_code, pf.token_dir,
                            pf.env, pf.remote))
    /\ UNCHANGED <<syncvars, gw, zn>>

LoginFromTokens ==
    /\ pf.fn = "login_from_tokens" /\ ~pf.applied
    /\ pf' = Ended(pf, login_from_tokens(pf.token_dir))
    /\ UNCHANGED <<syncvars, gw, zn>>

CmdSync ==
    /\ pf.fn = "cmd_sync" /\ ~pf.applied
    /\ pf' = Ended(pf, cmd_sync(pf.token_dir))
    /\ UNCHANGED <<syncvars, gw, zn>>

NextAuth == Login \/ LoginFromTokens \/ CmdSync

SpecAuth == InitAuth /\ [][NextAuth]_vars

\* a value is given by the flag or by the environment
Given(flag, envvar) == Truthy(flag) \/ Truthy(envvar)

\* C29: login with valid saved tokens returns the resumed client and never
\* reads email or password; without valid tokens it exits with 1 exactly when
\* email or password is missing and with 2 exactly when both are given, the
\* remote asks for an MFA code and none was supplied; login_from_tokens never
\* exits and raises RuntimeError without valid tokens; cmd_sync then exits
\* with 1 before init_db and sync_all are called.
C29_AuthOutcomes ==
    (pf.fn \in {"login", "login_from_tokens", "cmd_sync"} /\ pf.applied) =>
        LET creds == /\ Given(pf.email, pf.env.GARMIN_EMAIL)
                     /\ Given(pf.password, pf.env.GARMIN_PASSWORD)
            valid == pf.token_dir = "valid"
        IN  /\ pf.fn = "login" =>
                /\ valid => /\ pf.out.kind = "return"
                            /\ pf.out.client = "resumed"
                            /\ ~pf.out.consulted
                /\ (pf.out.kind = "exit" /\ pf.out.code = 1)
                      <=> (~valid /\ ~creds)
                /\ (pf.out.kind = "exit" /\ pf.out.code = 2)
                      <=> (~valid /\ creds /\ pf.remote = "mfa"
                              /\ ~Truthy(pf.mfa_code))
                /\ pf.out.kind = "exit" => pf.out.code \in {1, 2}
            /\ pf.fn = "login_from_tokens" =>
                /\ pf.out.kind # "exit"
                /\ ~valid => pf.out.kind = "raise" /\ pf.out.exc = "RuntimeError"
                /\ valid => pf.out.kind = "return" /\ pf.out.client = "resumed"
            /\ pf.fn = "cmd_sync" =>
                /\ ~valid => /\ pf.out.kind = "exit" /\ pf.out.code = 1
                             /\ ~pf.out.inited /\ ~pf.out.synced
                /\ valid => pf.out.kind = "return" /\ pf.out.synced

\* login with valid tokens and no credentials at all has returned the
\* resumed client
C29_Witness ==
    /\ pf.fn = "login" /\ pf.applied
    /\ pf.token_dir = "valid"
    /\ pf.email = None /\ pf.password = None /\ pf.env = NoEnv
    /\ pf.out.kind = "return" /\ pf.out.client = "resumed"

\* login without tokens, with credentials, asked for an MFA code it was not
\* given, has exited with 2
C29_WitnessMfa ==
    /\ pf.fn = "login" /\ pf.applied
    /\ pf.token_dir = "stale" /\ pf.remote = "mfa" /\ pf.mfa_code = None
    /\ pf.out.kind = "exit" /\ pf.out.code = EXIT_MFA_REQUIRED

\* cmd_sync without tokens has exited with 1 and touched nothing
C29_WitnessSync ==
    /\ pf.fn = "cmd_sync" /\ pf.applied /\ pf.token_dir = "missing"
    /\ pf.out.kind = "exit" /\ pf.out.code = 1 /\ ~pf.out.inited

----------------------------------------------------------------------------
(* Detail rows and the activities they belong to *)

\* C30: every committed row of activity_hr_zones and activity_splits has an
\* activity_id under which activities holds a committed row.
C30_DetailRowsHaveActivity ==
    \A c \in DetailCats :
        \A r \in BagToSet(db[c]) : r.pk[1] \in Keys(db["activities"])

----------------------------------------------------------------------------
(* The returned count and the upserts that reached the store *)

\* the upserts one successful fetch of a call of syncer c leads to
UpsertsPerFetch(c) ==
    CASE c = "activities" -> Len(RemoteActivities)
      [] c \in PerDateCats -> 1
      [] c \in {"body_composition", "fitness_scores"} -> cur[c].days + 1
      [] c = "race_predictions" -> 1
      [] c = "personal_records" -> Cardinality(Identified)
      [] c \in DetailCats -> RemoteOrdinals(cur[c].ver)

\* the upserts of the latest call of syncer c that a commit made durable:
\* a detail syncer commits after each activity, every other syncer once,
\* at its end
CommittedUpserts(c) ==
    LET lg == cur[c].log
        ok == {i \in 1..Len(lg) : lg[i] = "ok"}
    IN  IF c \in DetailCats
        THEN UpsertsPerFetch(c)
               * Cardinality({i \in ok : i < Len(lg) /\ lg[i + 1] = "commit"})
        ELSE IF ~CommitOk(lg) THEN 0
        ELSE IF c = "fitness_scores"
        THEN (IF ok = {} THEN 0 ELSE UpsertsPerFetch(c))
        ELSE UpsertsPerFetch(c) * Cardinality(ok)

\* C31: a completed call of a syncer that returned no error returned the
\* number of its upserts that were committed.
C31_CountMatchesCommitted ==
    \A c \in Cats :
        (cur[c].called /\ cur[c].err = None) =>
            cur[c].cnt = CommittedUpserts(c)

----------------------------------------------------------------------------
(* Stored values and failed fetches *)

\* a column value that is Python's None
Absent(x) == ToString(x) = ToString("None")

\* row q holds a value in every column in which row r holds one
KeepsValues(r, q) ==
    /\ q.pk = r.pk
    /\ \A k \in DOMAIN r.vals :
          ~Absent(r.vals[k]) => (k \in DOMAIN q.vals /\ ~Absent(q.vals[k]))

\* C32: after a call of a syncer in which a remote fetch raised, every row
\* its table held before the call is still there and holds a value in every
\* column in which it held one before.
C32_FailedFetchKeepsValues ==
    \A c \in Cats :
        (cur[c].called /\ "raise" \in Range(cur[c].log)) =>
            \A r \in BagToSet(cur[c].before) :
                \E q \in BagToSet(cur[c].after) : KeepsValues(r, q)

----------------------------------------------------------------------------
(* The window of sync_all(days=N) *)

\* C33: a completed call of a per-date syncer in a run over N days made N + 1
\* fetches; the i-th of them is for day i - 1 - N, so a committed call holds
\* a row under that day for every fetch that returned data and adds no key
\* outside today-N .. today; the result of sync_all reports N as `days`.
C33_WindowSize ==
    /\ \A c \in PerDateCats :
          cur[c].called =>
              LET N == cur[c].days
              IN  /\ N >= 0
                  /\ Len(Fetches(cur[c].log)) = N + 1
                  /\ Keys(cur[c].after) \ Keys(cur[c].before) \subseteq (0 - N)..0
                  /\ CommitOk(cur[c].log) =>
                        \A i \in 1..(N + 1) :
                            cur[c].log[i] = "ok" => (i - 1 - N) \in Keys(cur[c].after)
    /\ Finished =>
          /\ out.days = days
          /\ \A c \in PerDateCats :
                cur[c].called /\ cur[c].days = out.days

\* a finished run over one day back in which a per-date syncer fetched and
\* stored yesterday and today
C33_Witness ==
    /\ Finished
    /\ out.days = 1
    /\ \E c \in PerDateCats :
          /\ cur[c].log = <<"ok", "ok", "commit">>
          /\ Keys(cur[c].after) = {-1, 0}
          /\ cur[c].cnt = 2

====
